---- MODULE Spec2Model ----
(***************************************************************************)
(* MCoreUtils thread rules: the rule list (threadRules.c), the modifier    *)
(* parser, the application of modifiers to a thread (modifyRTProperties),  *)
(* the thread-start hook and the manual mcoreThreadModify.                 *)
(*                                                                         *)
(* C strings are sequences of one-character strings, so that the parsing   *)
(* functions (atoi, strToPolicy, strToCpuset, regcomp/regexec) compute on  *)
(* the characters as the C code does.                                      *)
(***************************************************************************)
EXTENDS Integers, Sequences, FiniteSets, TLC

\* ------------------------------------------------------------------ bounds
NumProcs == 2          \* threads of the process that call into the module
MaxNodes == 3          \* threadRule allocations the heap can hold at once

\* ------------------------------------------------------- program constants
epicsThreadPriorityMax == 99
epicsThreadPriorityMin == 0
SCHED_OTHER == 0
SCHED_FIFO  == 1
SCHED_RR    == 2
SCHED_BATCH == 3
SCHED_IDLE  == 5
CPU_SETSIZE == 1024
\* unsigned int is modelled 16 bits wide (the checker's integers are 32 bits
\* wide); every priority involved is far below 2^16, so wrap-around falls
\* outside the portable range exactly as it does with 32 bits
UIntWidth   == 16
UIntMod     == 2 ^ UIntWidth

Procs == 1 .. NumProcs
Nodes == 1 .. MaxNodes
NULL  == 0

VARIABLES
    scen,         \* which caller population runs (fixed by Init)
    threadRules,  \* static ELLLIST threadRules: node addresses in list order
    heap,         \* the threadRule objects, by address
    listLock,     \* epicsMutexId listLock: owner thread and recursion count
    pc,           \* position of each thread inside the module's functions
    loc,          \* arguments and local variables of the running function
    thr,          \* the epicsThreadOSD of each thread
    crashed,      \* the process died (undefined behaviour took that outcome)
    init,         \* the statics of the initialisation: firstTime, the once
                  \* flags, cpuDigits, and what once() has done so far
    files         \* the system and the user rule file (fixed by Init)

vars == <<scen, threadRules, heap, listLock, pc, loc, thr, crashed, init, files>>

\* ------------------------------------------------------------ C library
IsSpace(c) == c \in {" ", "\t", "\n", "\r"}

DigitChars == <<"0", "1", "2", "3", "4", "5", "6", "7", "8", "9">>

IsDigit(c) == \E d \in 1 .. 10 : DigitChars[d] = c

DigitVal(c) == (CHOOSE d \in 1 .. 10 : DigitChars[d] = c) - 1

RECURSIVE SkipSpace(_, _)
SkipSpace(s, i) ==
    IF i <= Len(s) /\ IsSpace(s[i]) THEN SkipSpace(s, i + 1) ELSE i

RECURSIVE AtoiDigits(_, _, _)
AtoiDigits(s, i, acc) ==
    IF i <= Len(s) /\ IsDigit(s[i])
    THEN AtoiDigits(s, i + 1, acc * 10 + DigitVal(s[i]))
    ELSE acc

\* atoi(3): leading white space, an optional sign, then decimal digits
atoi(s) ==
    LET i == SkipSpace(s, 1) IN
    IF i > Len(s) THEN 0
    ELSE IF s[i] = "-" THEN 0 - AtoiDigits(s, i + 1, 0)
    ELSE IF s[i] = "+" THEN AtoiDigits(s, i + 1, 0)
    ELSE AtoiDigits(s, i, 0)

UpperChars == <<"A", "B", "C", "D", "E", "F", "G", "H", "I", "J", "K", "L", "M",
                "N", "O", "P", "Q", "R", "S", "T", "U", "V", "W", "X", "Y", "Z">>

LowerChars == <<"a", "b", "c", "d", "e", "f", "g", "h", "i", "j", "k", "l", "m",
                "n", "o", "p", "q", "r", "s", "t", "u", "v", "w", "x", "y", "z">>

tolower(c) ==
    IF \E k \in 1 .. 26 : UpperChars[k] = c
    THEN LowerChars[CHOOSE k \in 1 .. 26 : UpperChars[k] = c]
    ELSE c

\* string == strcasestr(string, prefix): prefix is found at offset 0
HasPrefixNoCase(s, prefix) ==
    /\ Len(s) >= Len(prefix)
    /\ \A k \in 1 .. Len(prefix) : tolower(s[k]) = tolower(prefix[k])

\* 0 == strncasecmp(s, word, 1): the first characters agree, case ignored
\* (the terminating NUL of an empty s differs from every letter)
FirstCharIs(s, word) == Len(s) >= 1 /\ tolower(s[1]) = tolower(word[1])

\* index of the first occurrence of character c in s at or after i, else 0
RECURSIVE IndexOf(_, _, _)
IndexOf(s, c, i) ==
    IF i > Len(s) THEN 0
    ELSE IF s[i] = c THEN i
    ELSE IndexOf(s, c, i + 1)

\* strtok_r(buff, ","): the non-empty pieces between the commas, in order
RECURSIVE Tokens(_, _)
Tokens(s, sep) ==
    IF Len(s) = 0 THEN <<>>
    ELSE LET k == IndexOf(s, sep, 1) IN
         IF k = 0 THEN <<s>>
         ELSE IF k = 1 THEN Tokens(SubSeq(s, 2, Len(s)), sep)
         ELSE <<SubSeq(s, 1, k - 1)>> \o Tokens(SubSeq(s, k + 1, Len(s)), sep)

\* ------------------------------------------------------------ utils.c
\* variant: an index at or above the number of cpus of the host is left out
TokenCpusBelowN(tok) ==
    LET from == atoi(tok)
        sep  == IndexOf(tok, "-", 1)
        to   == IF sep # 0 THEN atoi(SubSeq(tok, sep + 1, Len(tok))) ELSE from
    IN  {i \in from .. to : 0 <= i /\ i < 6}

\* one token of a cpuset spec: from = to = atoi(tok); "-" gives to = atoi(sep+1)
TokenCpus(tok) ==
    LET from == atoi(tok)
        sep  == IndexOf(tok, "-", 1)
        to   == IF sep # 0 THEN atoi(SubSeq(tok, sep + 1, Len(tok))) ELSE from
    IN  {i \in from .. to : 0 <= i /\ i < CPU_SETSIZE}

RECURSIVE UnionOfTokens(_)
UnionOfTokens(toks) ==
    IF Len(toks) = 0 THEN {}
    ELSE TokenCpus(Head(toks)) \cup UnionOfTokens(Tail(toks))

strToCpuset(spec) == UnionOfTokens(Tokens(spec, ","))

\* NO_OF_CPUS: sysconf(_SC_NPROCESSORS_CONF) of the host
NoOfCpus == 6

\* sprintf("%d", n) for n >= 0
RECURSIVE IntToStr(_)
IntToStr(n) ==
    IF n < 10 THEN <<DigitChars[n + 1]>>
    ELSE IntToStr(n \div 10) \o <<DigitChars[(n % 10) + 1]>>

\* strncat(set, buf, n): at most n characters of buf are appended
strncat(set, buf, n) ==
    set \o SubSeq(buf, 1, IF Len(buf) < n THEN Len(buf) ELSE n)

\* line 68: skip the cpus that are not in the set
RECURSIVE SkipClear(_, _)
SkipClear(cpuset, cpu) ==
    IF cpu \notin cpuset /\ cpu < NoOfCpus THEN SkipClear(cpuset, cpu + 1) ELSE cpu

\* lines 75-77: extend the run; the result is <<to, cpu>>
RECURSIVE RunEnd(_, _, _)
RunEnd(cpuset, cpu, to) ==
    IF cpu \in cpuset /\ cpu < NoOfCpus THEN RunEnd(cpuset, cpu + 1, cpu)
    ELSE <<to, cpu>>

\* variant: a run of two or more cpus is written as its first cpu only
RunText1(from, to) == IntToStr(from) \o <<",">>

\* lines 78-82: the text of one run, with its trailing comma
RunText(from, to) ==
    IF from = to THEN IntToStr(from) \o <<",">>
    ELSE IntToStr(from) \o <<"-">> \o IntToStr(to) \o <<",">>

\* lines 67-84: the loop over the runs, from cpu on
RECURSIVE AppendRuns(_, _, _, _)
AppendRuns(set, len, cpuset, cpu) ==
    IF cpu >= NoOfCpus THEN set
    ELSE LET from == SkipClear(cpuset, cpu) IN
         IF from >= NoOfCpus THEN set
         ELSE LET e == RunEnd(cpuset, from + 1, from) IN
              AppendRuns(strncat(set, RunText(from, e[1]), len - 1 - Len(set)),
                         len, cpuset, e[2])

\* variant: lines 85-87 are missing, the last comma stays
cpusetToStrKeepsComma(len, cpuset) == AppendRuns(<<>>, len, cpuset, 0)

\* cpusetToStr(set, len, cpuset): the text left in set (len > 0)
cpusetToStr(len, cpuset) ==
    LET set == AppendRuns(<<>>, len, cpuset, 0) IN
    IF Len(set) > 0 THEN SubSeq(set, 1, Len(set) - 1) ELSE set

SchedPrefix == <<"S", "C", "H", "E", "D", "_">>

\* variant: a leading "SCHED_" is not skipped
strToPolicyKeepsPrefix(string) ==
    IF FirstCharIs(string, <<"O">>) THEN SCHED_OTHER
    ELSE IF FirstCharIs(string, <<"F">>) THEN SCHED_FIFO
    ELSE IF FirstCharIs(string, <<"R">>) THEN SCHED_RR
    ELSE IF FirstCharIs(string, <<"B">>) THEN SCHED_BATCH
    ELSE IF FirstCharIs(string, <<"I">>) THEN SCHED_IDLE
    ELSE -1

strToPolicy(string) ==
    LET s == IF HasPrefixNoCase(string, SchedPrefix)
             THEN SubSeq(string, 7, Len(string))
             ELSE string
    IN  IF FirstCharIs(s, <<"O">>) THEN SCHED_OTHER
        ELSE IF FirstCharIs(s, <<"F">>) THEN SCHED_FIFO
        ELSE IF FirstCharIs(s, <<"R">>) THEN SCHED_RR
        ELSE IF FirstCharIs(s, <<"B">>) THEN SCHED_BATCH
        ELSE IF FirstCharIs(s, <<"I">>) THEN SCHED_IDLE
        ELSE -1

\* ------------------------------------------------------------ regex(3)
\* The patterns used are sequences of literal characters and "." (any
\* character); an unmatched "(" makes regcomp fail with REG_EPAREN.
RECURSIVE ParenDepth(_, _, _)
ParenDepth(pat, i, d) ==
    IF i > Len(pat) THEN d
    ELSE IF pat[i] = "(" THEN ParenDepth(pat, i + 1, d + 1)
    ELSE IF pat[i] = ")" THEN (IF d = 0 THEN -1 ELSE ParenDepth(pat, i + 1, d - 1))
    ELSE ParenDepth(pat, i + 1, d)

RegexCompiles(pat) == ParenDepth(pat, 1, 0) = 0

\* regcomp(&reg, pattern, flags): on failure the contents of reg are undefined
regcomp(pat) ==
    IF RegexCompiles(pat)
    THEN [ok |-> TRUE,  prog |-> SelectSeq(pat, LAMBDA c : c \notin {"(", ")"})]
    ELSE [ok |-> FALSE, prog |-> <<>>]

\* unanchored search of a compiled program in the subject string
ProgMatchesAt(prog, subject, i) ==
    /\ i + Len(prog) - 1 <= Len(subject)
    /\ \A k \in 1 .. Len(prog) : prog[k] = "." \/ prog[k] = subject[i + k - 1]

ProgMatches(prog, subject) ==
    \E i \in 1 .. Len(subject) + 1 : ProgMatchesAt(prog, subject, i)

\* the outcomes of regexec(&reg, name, 0, NULL, 0): "match", "nomatch", and,
\* for a reg that regcomp failed to fill in, whatever the library does with it
regexecOutcomes(reg, subject) ==
    IF reg.ok
    THEN {IF ProgMatches(reg.prog, subject) THEN "match" ELSE "nomatch"}
    ELSE {"match", "nomatch", "crash"}


\* ------------------------------------------------------------ threadRules.c
\* struct threadRule after calloc(1, sizeof(threadRule)): every byte is zero
ZeroRule ==
    [name |-> <<>>, pattern |-> <<>>, cpus |-> <<>>,
     reg |-> [ok |-> FALSE, prog |-> <<>>],
     ch_policy |-> 0, ch_priority |-> 0, ch_affinity |-> 0, rel_priority |-> 0,
     policy |-> 0, priority |-> 0, cpuset |-> {}]

\* a text field that asks for a change: not NULL, not "*...", not empty
Specified(text) == Len(text) > 0 /\ text[1] # "*"

\* variant: lines 87-89 are missing, the flag stays set after a failed decode
parsePolicyKeepsFlag(prule, policy) ==
    IF Specified(policy)
    THEN [prule EXCEPT !.ch_policy = 1, !.policy = strToPolicy(policy)]
    ELSE prule

parsePolicy(prule, policy) ==
    IF Specified(policy)
    THEN LET v == strToPolicy(policy) IN
         IF v = -1
         THEN [prule EXCEPT !.ch_policy = 0, !.policy = 0]
         ELSE [prule EXCEPT !.ch_policy = 1, !.policy = v]
    ELSE prule

\* variant: the test for "*" at line 91 is missing
parsePriorityNoStarTest(prule, priority) ==
    IF Len(priority) > 0
    THEN LET rel == IF priority[1] = "+" \/ priority[1] = "-"
                    THEN 1 ELSE prule.rel_priority
             v   == atoi(priority)
             hi  == IF v > epicsThreadPriorityMax THEN epicsThreadPriorityMax ELSE v
             lo  == IF hi < epicsThreadPriorityMin THEN epicsThreadPriorityMin ELSE hi
         IN  [prule EXCEPT !.ch_priority = 1, !.rel_priority = rel, !.priority = lo]
    ELSE prule

parsePriority(prule, priority) ==
    IF Specified(priority)
    THEN LET rel == IF priority[1] = "+" \/ priority[1] = "-"
                    THEN 1 ELSE prule.rel_priority
             v   == atoi(priority)
             hi  == IF v > epicsThreadPriorityMax THEN epicsThreadPriorityMax ELSE v
             lo  == IF hi < epicsThreadPriorityMin THEN epicsThreadPriorityMin ELSE hi
         IN  [prule EXCEPT !.ch_priority = 1, !.rel_priority = rel, !.priority = lo]
    ELSE prule

parseAffinity(prule, cpus) ==
    IF Specified(cpus)
    THEN [prule EXCEPT !.ch_affinity = 1, !.cpuset = strToCpuset(cpus)]
    ELSE prule

parseModifiers(prule, policy, priority, cpus) ==
    parseAffinity(parsePriority(parsePolicy(prule, policy), priority), cpus)

\* ---------------------------------------------------------- epicsThreadOSD
\* value of an int or unsigned expression stored into an unsigned int
ToUInt(v) == v % UIntMod

\* epicsThreadGetPosixPriority: the portable priority scaled into the
\* SCHED_FIFO range of the host
PosixPriorityMin == 1
PosixPriorityMax == 99

epicsThreadGetPosixPriority(osiPriority) ==
    PosixPriorityMin + (osiPriority * (PosixPriorityMax - PosixPriorityMin)) \div 100

AllCpus == 0 .. NoOfCpus - 1

\* a thread as the EPICS thread library creates it: cached fields, the
\* pthread attribute object, and what the kernel holds for the live thread
NewThread(name, osiPriority) ==
    [name |-> name,
     osiPriority |-> osiPriority,
     schedPolicy |-> SCHED_FIFO,
     schedParam  |-> epicsThreadGetPosixPriority(osiPriority),
     isRealTimeScheduled |-> 1,
     attr |-> [policy |-> SCHED_FIFO,
               param  |-> epicsThreadGetPosixPriority(osiPriority),
               affinity |-> AllCpus],
     live |-> [policy |-> SCHED_FIFO,
               param  |-> epicsThreadGetPosixPriority(osiPriority),
               affinity |-> AllCpus]]

\* priority computed at lines 233-240, in unsigned int arithmetic
newPriority(osiPriority, prule) ==
    IF prule.rel_priority # 0
    THEN LET sum == ToUInt(osiPriority + prule.priority)
             hi  == IF sum > ToUInt(epicsThreadPriorityMax)
                    THEN ToUInt(epicsThreadPriorityMax) ELSE sum
         IN  IF hi < ToUInt(epicsThreadPriorityMin)
             THEN ToUInt(epicsThreadPriorityMin) ELSE hi
    ELSE ToUInt(prule.priority)

\* variant: line 226 tests for SCHED_FIFO only
applySchedFifoOnly(id, prule, fail) ==
    LET ok(c) == c \notin fail
        h1 == IF ok("pthread_attr_getschedparam")
              THEN [id EXCEPT !.schedParam = id.attr.param] ELSE id
        h2 == IF ok("pthread_attr_getschedpolicy")
              THEN [h1 EXCEPT !.schedPolicy = h1.attr.policy] ELSE h1
        h3 == IF prule.ch_policy # 0
              THEN [h2 EXCEPT
                      !.schedPolicy = prule.policy,
                      !.attr.policy = IF ok("pthread_attr_setschedpolicy")
                                      THEN prule.policy ELSE @,
                      !.isRealTimeScheduled =
                          IF prule.policy = SCHED_FIFO THEN 1 ELSE 0]
              ELSE h2
        h4 == IF prule.ch_priority # 0
              THEN LET priority == newPriority(h3.osiPriority, prule)
                       posix    == epicsThreadGetPosixPriority(priority)
                   IN  [h3 EXCEPT
                          !.osiPriority = priority,
                          !.schedParam  = posix,
                          !.attr.param  = IF ok("pthread_attr_setschedparam")
                                          THEN posix ELSE @]
              ELSE h3
        h5 == IF ok("pthread_setschedparam")
              THEN [h4 EXCEPT !.live.policy = h4.schedPolicy,
                              !.live.param  = h4.schedParam]
              ELSE h4
    IN  [id |-> h5,
         calls |-> <<"pthread_attr_getschedparam", "pthread_attr_getschedpolicy">>
                   \o (IF prule.ch_policy # 0
                       THEN <<"pthread_attr_setschedpolicy">> ELSE <<>>)
                   \o (IF prule.ch_priority # 0
                       THEN <<"pthread_attr_setschedparam">> ELSE <<>>)
                   \o <<"pthread_setschedparam">>]

\* variant: the new priority is stored in the thread only when
\* pthread_setschedparam will succeed
applySchedStoresOnSuccess(id, prule, fail) ==
    LET ok(c) == c \notin fail
        h1 == IF ok("pthread_attr_getschedparam")
              THEN [id EXCEPT !.schedParam = id.attr.param] ELSE id
        h2 == IF ok("pthread_attr_getschedpolicy")
              THEN [h1 EXCEPT !.schedPolicy = h1.attr.policy] ELSE h1
        h3 == IF prule.ch_policy # 0
              THEN [h2 EXCEPT
                      !.schedPolicy = prule.policy,
                      !.attr.policy = IF ok("pthread_attr_setschedpolicy")
                                      THEN prule.policy ELSE @,
                      !.isRealTimeScheduled =
                          IF prule.policy = SCHED_FIFO \/ prule.policy = SCHED_RR
                          THEN 1 ELSE 0]
              ELSE h2
        h4 == IF prule.ch_priority # 0
              THEN LET priority == newPriority(h3.osiPriority, prule)
                       posix    == epicsThreadGetPosixPriority(priority)
                   IN  [h3 EXCEPT
                          !.osiPriority = IF ok("pthread_setschedparam")
                                          THEN priority ELSE @,
                          !.schedParam  = posix,
                          !.attr.param  = IF ok("pthread_attr_setschedparam")
                                          THEN posix ELSE @]
              ELSE h3
        h5 == IF ok("pthread_setschedparam")
              THEN [h4 EXCEPT !.live.policy = h4.schedPolicy,
                              !.live.param  = h4.schedParam]
              ELSE h4
    IN  [id |-> h5,
         calls |-> <<"pthread_attr_getschedparam", "pthread_attr_getschedpolicy">>
                   \o (IF prule.ch_policy # 0
                       THEN <<"pthread_attr_setschedpolicy">> ELSE <<>>)
                   \o (IF prule.ch_priority # 0
                       THEN <<"pthread_attr_setschedparam">> ELSE <<>>)
                   \o <<"pthread_setschedparam">>]

\* lines 213-251: the scheduling part; fail is the set of calls that fail
applySched(id, prule, fail) ==
    LET ok(c) == c \notin fail
        h1 == IF ok("pthread_attr_getschedparam")
              THEN [id EXCEPT !.schedParam = id.attr.param] ELSE id
        h2 == IF ok("pthread_attr_getschedpolicy")
              THEN [h1 EXCEPT !.schedPolicy = h1.attr.policy] ELSE h1
        h3 == IF prule.ch_policy # 0
              THEN [h2 EXCEPT
                      !.schedPolicy = prule.policy,
                      !.attr.policy = IF ok("pthread_attr_setschedpolicy")
                                      THEN prule.policy ELSE @,
                      !.isRealTimeScheduled =
                          IF prule.policy = SCHED_FIFO \/ prule.policy = SCHED_RR
                          THEN 1 ELSE 0]
              ELSE h2
        h4 == IF prule.ch_priority # 0
              THEN LET priority == newPriority(h3.osiPriority, prule)
                       posix    == epicsThreadGetPosixPriority(priority)
                   IN  [h3 EXCEPT
                          !.osiPriority = priority,
                          !.schedParam  = posix,
                          !.attr.param  = IF ok("pthread_attr_setschedparam")
                                          THEN posix ELSE @]
              ELSE h3
        h5 == IF ok("pthread_setschedparam")
              THEN [h4 EXCEPT !.live.policy = h4.schedPolicy,
                              !.live.param  = h4.schedParam]
              ELSE h4
    IN  [id |-> h5,
         calls |-> <<"pthread_attr_getschedparam", "pthread_attr_getschedpolicy">>
                   \o (IF prule.ch_policy # 0
                       THEN <<"pthread_attr_setschedpolicy">> ELSE <<>>)
                   \o (IF prule.ch_priority # 0
                       THEN <<"pthread_attr_setschedparam">> ELSE <<>>)
                   \o <<"pthread_setschedparam">>]

\* lines 253-264: the affinity part
applyAffinity(id, prule, fail) ==
    [id |-> [id EXCEPT
               !.attr.affinity = IF "pthread_attr_setaffinity_np" \notin fail
                                 THEN prule.cpuset ELSE @,
               !.live.affinity = IF "pthread_setaffinity_np" \notin fail
                                 THEN prule.cpuset ELSE @],
     calls |-> <<"pthread_attr_setaffinity_np", "pthread_setaffinity_np">>]

\* variant: the function returns after the scheduling part when a call of that
\* part has failed
modifyRTPropertiesStops(id, prule, fail) ==
    LET s == IF prule.ch_policy # 0 \/ prule.ch_priority # 0
             THEN applySched(id, prule, fail)
             ELSE [id |-> id, calls |-> <<>>]
        a == IF prule.ch_affinity # 0
                 /\ \A k \in 1 .. Len(s.calls) : s.calls[k] \notin fail
             THEN applyAffinity(s.id, prule, fail)
             ELSE [id |-> s.id, calls |-> <<>>]
    IN  [id |-> a.id, calls |-> s.calls \o a.calls]

\* variant: the affinity part (lines 253-264) comes before the scheduling part
modifyRTPropertiesAffinityFirst(id, prule, fail) ==
    LET a == IF prule.ch_affinity # 0
             THEN applyAffinity(id, prule, fail)
             ELSE [id |-> id, calls |-> <<>>]
        s == IF prule.ch_policy # 0 \/ prule.ch_priority # 0
             THEN applySched(a.id, prule, fail)
             ELSE [id |-> a.id, calls |-> <<>>]
    IN  [id |-> s.id, calls |-> a.calls \o s.calls]

\* modifyRTProperties(id, prule): the thread afterwards and the OS calls made
modifyRTProperties(id, prule, fail) ==
    LET s == IF prule.ch_policy # 0 \/ prule.ch_priority # 0
             THEN applySched(id, prule, fail)
             ELSE [id |-> id, calls |-> <<>>]
        a == IF prule.ch_affinity # 0
             THEN applyAffinity(s.id, prule, fail)
             ELSE [id |-> s.id, calls |-> <<>>]
    IN  [id |-> a.id, calls |-> s.calls \o a.calls]

\* the calls modifyRTProperties makes for a rule: only these can fail
CallsFor(prule) ==
    (IF prule.ch_policy # 0 \/ prule.ch_priority # 0
     THEN {"pthread_attr_getschedparam", "pthread_attr_getschedpolicy",
           "pthread_setschedparam"}
          \cup (IF prule.ch_policy # 0 THEN {"pthread_attr_setschedpolicy"} ELSE {})
          \cup (IF prule.ch_priority # 0 THEN {"pthread_attr_setschedparam"} ELSE {})
     ELSE {})
    \cup (IF prule.ch_affinity # 0
          THEN {"pthread_attr_setaffinity_np", "pthread_setaffinity_np"} ELSE {})


\* ------------------------------------------------------------ inputs
\* Several caller populations share the operations below and differ in the
\* arguments they pass:
\*   "concurrent"  several threads, few argument values     (Spec)
\*   "rules"       one thread, many rule definitions        (SpecRules)
\*   "modify"      one thread, many mcoreThreadModify calls (SpecModify)
\*   "codec"       one thread, many policy and cpus texts   (SpecCodec)
\*   "failures"    one thread, failing allocations and OS calls (SpecFailures)
\*   "files"       one thread, rule files with rules and errors (SpecFiles)
\*   "cached"      one thread, priorities with failing OS calls (SpecCached)
\*   "fair"        several threads under fair scheduling    (SpecFair)
Star == <<"*">>

Modifiers(policy, priority, cpus) ==
    [policy |-> policy, priority |-> priority, cpus |-> cpus]

RuleNames(s) ==
    IF s = "rules" THEN {<<"r", "1">>, <<"r", "2">>} ELSE {<<"r", "1">>}

ThreadNames(s) ==
    IF s = "rules" THEN {<<"a", "b">>, <<"b">>}
    ELSE IF s = "codec" THEN {<<"b">>}
    ELSE {<<"a", "b">>}

RuleInput(policy, priority, cpus, pattern) ==
    [policy |-> policy, priority |-> priority, cpus |-> cpus, pattern |-> pattern]

\* policy texts: the names, their abbreviations and spellings, and texts
\* that name no policy
PolicyTexts ==
    {<<"f">>, <<"F">>, <<"F", "I", "F", "O">>, <<"f", "i", "f", "o">>,
     <<"F", "i", "f", "o">>,
     <<"S", "C", "H", "E", "D", "_", "F", "I", "F", "O">>,
     <<"s", "c", "h", "e", "d", "_", "f", "i", "f", "o">>,
     <<"F", "x", "y", "z">>, <<"o">>, <<"O", "T", "H", "E", "R">>,
     <<"S", "C", "H", "E", "D", "_", "O", "T", "H", "E", "R">>, <<"r">>,
     <<"R", "R">>, <<"r", "r">>, <<"S", "C", "H", "E", "D", "_", "R", "R">>,
     <<"b">>, <<"B", "A", "T", "C", "H">>,
     <<"s", "c", "h", "e", "d", "_", "b", "a", "t", "c", "h">>, <<"i">>,
     <<"I", "D", "L", "E">>,
     <<"S", "C", "H", "E", "D", "_", "I", "D", "L", "E">>, <<"x", "y", "z">>,
     <<"S", "C", "H", "E", "D", "_">>, <<"S", "C", "H", "E", "D">>,
     <<"S", "C", "H", "E", "D", "_", "x", "y", "z">>, <<"5">>, <<" ", "f">>}

\* cpus texts: every non-empty subset of the cpus as runs in ascending order,
\* texts that are not in that form (descending, unmerged, repeated, empty), and
\* texts with indices at or above NoOfCpus and at or above CPU_SETSIZE
CpuTexts ==
    {<<"0">>, <<"1">>, <<"2">>, <<"3">>, <<"4">>, <<"5">>, <<"0", "-", "1">>,
     <<"0", ",", "2">>, <<"0", ",", "3">>, <<"0", ",", "4">>,
     <<"0", ",", "5">>, <<"1", "-", "2">>, <<"1", ",", "3">>,
     <<"1", ",", "4">>, <<"1", ",", "5">>, <<"2", "-", "3">>,
     <<"2", ",", "4">>, <<"2", ",", "5">>, <<"3", "-", "4">>,
     <<"3", ",", "5">>, <<"4", "-", "5">>, <<"0", "-", "2">>,
     <<"0", "-", "1", ",", "3">>, <<"0", "-", "1", ",", "4">>,
     <<"0", "-", "1", ",", "5">>, <<"0", ",", "2", "-", "3">>,
     <<"0", ",", "2", ",", "4">>, <<"0", ",", "2", ",", "5">>,
     <<"0", ",", "3", "-", "4">>, <<"0", ",", "3", ",", "5">>,
     <<"0", ",", "4", "-", "5">>, <<"1", "-", "3">>,
     <<"1", "-", "2", ",", "4">>, <<"1", "-", "2", ",", "5">>,
     <<"1", ",", "3", "-", "4">>, <<"1", ",", "3", ",", "5">>,
     <<"1", ",", "4", "-", "5">>, <<"2", "-", "4">>,
     <<"2", "-", "3", ",", "5">>, <<"2", ",", "4", "-", "5">>,
     <<"3", "-", "5">>, <<"0", "-", "3">>, <<"0", "-", "2", ",", "4">>,
     <<"0", "-", "2", ",", "5">>, <<"0", "-", "1", ",", "3", "-", "4">>,
     <<"0", "-", "1", ",", "3", ",", "5">>,
     <<"0", "-", "1", ",", "4", "-", "5">>, <<"0", ",", "2", "-", "4">>,
     <<"0", ",", "2", "-", "3", ",", "5">>,
     <<"0", ",", "2", ",", "4", "-", "5">>, <<"0", ",", "3", "-", "5">>,
     <<"1", "-", "4">>, <<"1", "-", "3", ",", "5">>,
     <<"1", "-", "2", ",", "4", "-", "5">>, <<"1", ",", "3", "-", "5">>,
     <<"2", "-", "5">>, <<"0", "-", "4">>, <<"0", "-", "3", ",", "5">>,
     <<"0", "-", "2", ",", "4", "-", "5">>,
     <<"0", "-", "1", ",", "3", "-", "5">>, <<"0", ",", "2", "-", "5">>,
     <<"1", "-", "5">>, <<"0", "-", "5">>, <<"1", ",", "0">>,
     <<"0", ",", "1">>, <<"0", ",", "1", ",", "2", ",", "3">>,
     <<"2", "-", "2">>, <<"0", ",", "0">>, <<"3", ",", "0", "-", "1">>,
     <<"1", "-", "2", ",", "0", "-", "1">>, <<"0", "-", "1", ",">>, <<",">>,
     <<"5", ",", "3", "-", "4", ",", "0">>,
     <<"6">>, <<"7">>, <<"4", "-", "7">>, <<"0", ",", "1", "0", "3", "0">>,
     <<"1", "0", "2", "2", "-", "1", "0", "2", "5">>}

\* the (policy, priority, cpus, pattern) texts passed to mcoreThreadRuleAdd
RuleInputs(s) ==
    IF s = "rules"
    THEN {RuleInput(Star, Star, Star, <<"a">>),
          RuleInput(<<"x", "y", "z">>, <<"+", "3", "0">>, <<"0", "-", "1">>, <<"a">>),
          RuleInput(<<"o">>, <<"-", "5">>, Star, <<"a">>),
          RuleInput(<<>>, <<"1", "5", "0">>, <<>>, <<".">>),
          RuleInput(Star, Star, Star, <<"(">>)}
    ELSE IF s = "codec"
    THEN {RuleInput(t, Star, Star, <<"a">>) : t \in PolicyTexts}
         \cup {RuleInput(Star, Star, t, <<"a">>) : t \in CpuTexts}
    ELSE IF s = "failures"
    THEN {RuleInput(Star, Star, Star, <<"a">>),
          RuleInput(<<"r">>, <<"2", "0">>, <<"0", "-", "1">>, <<"a">>)}
    ELSE IF s = "cached"
    THEN {RuleInput(Star, Star, Star, <<"a">>),
          RuleInput(Star, <<"+", "2", "5">>, Star, <<"a">>)}
    ELSE IF s = "fair"
    THEN {RuleInput(Star, <<"5", "0">>, Star, <<"a">>)}
    ELSE IF s = "modify"
    THEN {RuleInput(Star, Star, Star, <<"a">>),
          RuleInput(Star, <<"5", "0">>, Star, <<"a">>),
          RuleInput(<<"x", "y", "z">>, <<"2", "0">>, <<"0", "-", "1">>, <<"a">>)}
    ELSE {RuleInput(Star, Star, Star, <<"a">>),
          RuleInput(Star, <<"5", "0">>, Star, <<"a">>)}

InitPriorities(s) ==
    IF s \in {"concurrent", "failures", "cached", "fair"} THEN {50} ELSE {50, 99}

\* the allocations of one mcoreThreadRuleAdd call: all succeed, or calloc
\* (line 113), a strdup of lines 119-121, the strdup of strToCpuset
\* (utils.c line 31) or an allocation inside regcomp (line 128) fails
AllocOutcomes(s) ==
    IF s = "failures"
    THEN {"ok", "calloc_fails", "strdup_fails", "strToCpuset_fails", "regcomp_fails"}
    ELSE IF s = "modify" THEN {"ok", "calloc_fails", "strdup_fails"}
    ELSE IF s = "files" THEN {"ok"}
    ELSE {"ok", "calloc_fails"}

\* the (policy, priority, cpus) texts passed to mcoreThreadModify
ModifyInputs(s) ==
    IF s = "modify"
    THEN {Modifiers(Star, Star, Star),
          Modifiers(<<>>, <<"+", "1", "0">>, <<"0", "-", "1">>),
          Modifiers(<<"r">>, <<"-", "5">>, Star),
          Modifiers(<<"x", "y", "z">>, <<"1", "5", "0">>, <<"0", ",", "2", "-", "3">>),
          Modifiers(<<"o">>, <<"2", "0">>, <<>>)}
    ELSE IF s = "failures"
    THEN {Modifiers(Star, Star, Star),
          Modifiers(<<"r">>, <<"2", "0">>, <<"0", "-", "1">>)}
    ELSE IF s = "cached"
    THEN {Modifiers(<<"o">>, <<"2", "0">>, Star),
          Modifiers(Star, <<"+", "2", "5">>, Star)}
    ELSE {Modifiers(Star, Star, Star)}

\* what the stack may hold where mcoreThreadModify's automatic "threadRule
\* rule" is placed: the fields parseModifiers does not write keep it
StackRule(chp, chq, cha, rel, prio) ==
    [ZeroRule EXCEPT !.ch_policy = chp, !.ch_priority = chq, !.ch_affinity = cha,
                     !.rel_priority = rel, !.policy = SCHED_RR,
                     !.priority = prio, !.cpuset = {0}]

StackContents(s) ==
    IF s = "modify"
    THEN {StackRule(f[1], f[2], f[3], f[4], v) :
              f \in [1 .. 4 -> {0, 1}], v \in {-1000, 1000}}
    ELSE IF s \in {"failures", "cached", "fair"} THEN {StackRule(0, 0, 0, 0, 0)}
    ELSE {StackRule(0, 0, 0, 0, 0), StackRule(0, 0, 0, 1, 0)}

\* which of the OS calls made for a rule fail
FailChoices(s, prule) ==
    IF s \in {"failures", "cached"} THEN SUBSET CallsFor(prule) ELSE {{}}

\* the threads that call into the module
Active == IF scen \in {"concurrent", "fair"} THEN Procs ELSE {1}

\* ------------------------------------------------------------ rule files
\* a rule file: whether fopen succeeds, and its lines as fgets returns them
NoFile == [open |-> FALSE, lines |-> <<>>]

FileOf(lines) == [open |-> TRUE, lines |-> lines]

LineComment == <<"#", " ", "c", "\n">>

LineEmpty == <<" ", "\n">>

LineRule1 == <<"r", "1", ":", "*", ":", "5", "0", ":", "*", ":", "a", "\n">>

LineRule2 == <<"r", "2", ":", "f", ":", "+", "5", ":", "0", "-", "1", ":", "b", "\n">>

LineRule1b == <<"r", "1", ":", "o", ":", "*", ":", "*", ":", "a", "\n">>

LineFourFields == <<"r", "2", ":", "*", ":", "*", ":", "*", "\n">>

LineNoColon == <<"o", "o", "p", "s", "\n">>

\* /etc/rtrules
SysFiles(s) ==
    IF s = "files"
    THEN {NoFile,
          FileOf(<<LineComment, LineRule1, LineFourFields, LineRule2>>),
          FileOf(<<LineRule2, LineEmpty, LineRule1>>)}
    ELSE {NoFile}

\* $HOME/.rtrules
UserFiles(s) ==
    IF s = "files"
    THEN {NoFile,
          FileOf(<<LineRule1b, LineNoColon, LineRule2>>),
          FileOf(<<LineRule2>>)}
    ELSE {NoFile}

\* the statics before mcoreRegister or mcoreThreadRulesInit has been called
NotStarted ==
    [firstTime |-> 1,         \* shellCommands.c: static int firstTime
     showOnceFlag |-> "init", \* threadShow.c: onceFlag of mcoreThreadShowInit
     onceFlag |-> "init",     \* threadRules.c: onceFlag of mcoreThreadRulesInit
     cpuDigits |-> 0,         \* utils.c: int cpuDigits
     locks |-> 0,             \* mutexes created for listLock
     hooks |-> 0,             \* times threadStartHook is in the hook list
     loaded |-> <<>>,         \* the files read and the counts returned
     registered |-> FALSE]    \* the shell commands are registered

\* ------------------------------------------------------------ state
FreeCell == [st |-> "free", rule |-> ZeroRule]

NoLoc ==
    [name |-> <<>>, policy |-> <<>>, priority |-> <<>>, cpus |-> <<>>,
     pattern |-> <<>>,
     caller |-> "",        \* who called mcoreThreadRuleDelete: "shell" or "add"
     node |-> NULL,        \* mcoreThreadRuleAdd's prule (the new rule)
     prule |-> NULL,       \* the list cursor of delete, show and the hook
     id |-> 0,             \* the thread a hook or modify works on
     rule |-> ZeroRule,    \* mcoreThreadModify's automatic rule
     applied |-> <<>>,     \* rules handed to modifyRTProperties by this hook
     calls |-> <<>>,       \* OS calls made by the last modifyRTProperties
     failed |-> {},        \* the allocation of mcoreThreadRuleAdd that failed
     ret |-> 0,            \* value mcoreThreadRuleAdd returns
     from |-> "",          \* who called mcoreThreadRulesInit: "register" or "api"
     file |-> "",          \* readRulesFromFile: the file read, "sys" or "user"
     lineno |-> 0,         \* readRulesFromFile: lines read so far
     count |-> 0,          \* readRulesFromFile: rules added so far
     pending |-> 0,        \* registered hook functions still to be called
     out |-> <<>>]         \* rows printed by mcoreThreadRulesShow

InitCommon ==
    /\ threadRules = <<>>
    /\ heap = [n \in Nodes |-> FreeCell]
    /\ listLock = [owner |-> 0, count |-> 0]
    /\ pc = [p \in Procs |-> "idle"]
    /\ loc = [p \in Procs |-> NoLoc]
    /\ thr = [p \in Procs |-> NewThread(<<"a", "b">>, 50)]
    /\ crashed = FALSE
    /\ init = NotStarted
    /\ files \in [sys : SysFiles(scen), user : UserFiles(scen)]

Init == scen = "concurrent" /\ InitCommon

InitRules == scen = "rules" /\ InitCommon

InitModify == scen = "modify" /\ InitCommon

InitCodec == scen = "codec" /\ InitCommon

InitFailures == scen = "failures" /\ InitCommon

InitFiles == scen = "files" /\ InitCommon

InitCached == scen = "cached" /\ InitCommon

InitFair == scen = "fair" /\ InitCommon

\* ------------------------------------------------------------ epicsMutex
\* variant: the mutex does not exclude other threads
CanLockAlways(p) == TRUE

\* epicsMutexLock can return when the mutex is free or owned by the caller
CanLock(p) == listLock.owner = 0 \/ listLock.owner = p

epicsMutexLock(p) == [owner |-> p, count |-> listLock.count + 1]

\* variant: the mutex does not count, one unlock releases it
epicsMutexUnlockAll(p) == [owner |-> 0, count |-> 0]

epicsMutexUnlock(p) ==
    IF listLock.count = 1
    THEN [owner |-> 0, count |-> 0]
    ELSE [owner |-> listLock.owner, count |-> listLock.count - 1]

\* ------------------------------------------------------------ ellLib
ellFirst(list) == IF Len(list) = 0 THEN NULL ELSE list[1]

ellIndex(list, n) ==
    IF \E i \in 1 .. Len(list) : list[i] = n
    THEN CHOOSE i \in 1 .. Len(list) : list[i] = n
    ELSE 0

ellNext(list, n) ==
    LET i == ellIndex(list, n) IN
    IF i = 0 \/ i = Len(list) THEN NULL ELSE list[i + 1]

ellDelete(list, n) == SelectSeq(list, LAMBDA m : m # n)

\* variant: the node is put at the head of the list
ellAddFirst(list, n) == <<n>> \o list

ellAdd(list, n) == Append(list, n)

\* variant: the search starts at the successor of the first node
RECURSIVE findRuleSkipsFirst(_, _, _)
findRuleSkipsFirst(list, name, i) ==
    IF i + 1 > Len(list) THEN NULL
    ELSE IF heap[list[i + 1]].rule.name = name THEN list[i + 1]
    ELSE findRuleSkipsFirst(list, name, i + 1)

\* variant: the name comparison at line 147 is missing
findRuleAnyName(list, name, i) ==
    IF i > Len(list) THEN NULL ELSE list[i]

\* the first node whose name equals name (strcmp), NULL when there is none
RECURSIVE findRule(_, _, _)
findRule(list, name, i) ==
    IF i > Len(list) THEN NULL
    ELSE IF heap[list[i]].rule.name = name THEN list[i]
    ELSE findRule(list, name, i + 1)


\* ------------------------------------------------------------ operations
Running(p) == p \in Active /\ ~crashed

FreeNodes == {n \in Nodes : heap[n].st = "free"}

LeastFree == CHOOSE n \in FreeNodes : \A m \in FreeNodes : n <= m

\* lines 119-128: the rule as filled in before it is linked
newRule(name, policy, priority, cpus, pattern) ==
    LET named  == [ZeroRule EXCEPT !.name = name, !.pattern = pattern, !.cpus = cpus]
        parsed == parseModifiers(named, policy, priority, cpus)
    IN  [parsed EXCEPT !.reg = regcomp(pattern)]

\* what strToCpuset can leave behind when its strdup returns NULL: strtok_r
\* is then called with a NULL string and an uninitialised save pointer
StrtokNullOutcomes == {"crash", "no_token"}

\* mcoreThreadRuleAdd, lines 113-128: allocate, copy, parse, compile; base
\* holds the caller's locals that stay alive during the call
AddBegin(p, base, name, in, alloc) ==
    LET args  == [base EXCEPT !.name = name, !.policy = in.policy,
                              !.priority = in.priority, !.cpus = in.cpus,
                              !.pattern = in.pattern]
        built == newRule(name, in.policy, in.priority, in.cpus, in.pattern)
    IN  IF alloc = "calloc_fails" \/ FreeNodes = {}
        THEN /\ loc' = [loc EXCEPT ![p] =
                          [args EXCEPT !.ret = -1, !.failed = {"calloc"}]]
             /\ pc' = [pc EXCEPT ![p] = "add_done"]
             /\ UNCHANGED <<heap, crashed>>
        ELSE IF alloc = "strdup_fails"
        THEN /\ heap' = [heap EXCEPT ![LeastFree] =
                           [st |-> "leaked", rule |-> ZeroRule]]
             /\ loc' = [loc EXCEPT ![p] =
                          [args EXCEPT !.ret = -1, !.failed = {"strdup"}]]
             /\ pc' = [pc EXCEPT ![p] = "add_done"]
             /\ UNCHANGED crashed
        ELSE IF alloc = "strToCpuset_fails" /\ Specified(in.cpus)
        THEN \E outcome \in StrtokNullOutcomes :
                /\ heap' = [heap EXCEPT ![LeastFree] =
                              [st |-> "used",
                               rule |-> [built EXCEPT !.cpuset = {}]]]
                /\ loc' = [loc EXCEPT ![p] =
                             [args EXCEPT !.node = LeastFree,
                                          !.failed = {"strToCpuset"}]]
                /\ pc' = [pc EXCEPT ![p] =
                             IF outcome = "crash" THEN "add_parse" ELSE "add_lock"]
                /\ crashed' = (outcome = "crash")
        ELSE IF alloc = "regcomp_fails"
        THEN /\ heap' = [heap EXCEPT ![LeastFree] =
                           [st |-> "used",
                            rule |-> [built EXCEPT
                                        !.reg = [ok |-> FALSE, prog |-> <<>>]]]]
             /\ loc' = [loc EXCEPT ![p] =
                          [args EXCEPT !.node = LeastFree, !.failed = {"regcomp"}]]
             /\ pc' = [pc EXCEPT ![p] = "add_lock"]
             /\ UNCHANGED crashed
        ELSE /\ heap' = [heap EXCEPT ![LeastFree] = [st |-> "used", rule |-> built]]
             /\ loc' = [loc EXCEPT ![p] = [args EXCEPT !.node = LeastFree]]
             /\ pc' = [pc EXCEPT ![p] = "add_lock"]
             /\ UNCHANGED crashed

\* mcoreThreadRuleAdd called from the shell
AddAlloc(p) ==
    /\ Running(p) /\ pc[p] = "idle" /\ init.registered
    /\ \E name \in RuleNames(scen), in \in RuleInputs(scen),
          alloc \in AllocOutcomes(scen) :
          AddBegin(p, NoLoc, name, in, alloc)
    /\ UNCHANGED <<scen, files, init, threadRules, listLock, thr>>

\* variant: mcoreThreadRuleAdd does not take the lock itself at line 130
AddLockOnlyInDelete(p) ==
    /\ Running(p) /\ pc[p] = "add_lock"
    /\ CanLock(p)
    /\ listLock' = epicsMutexLock(p)
    /\ loc' = [loc EXCEPT ![p].caller = "add"]
    /\ pc' = [pc EXCEPT ![p] = "del_scan"]
    /\ UNCHANGED <<scen, files, init, threadRules, heap, thr, crashed>>

\* lines 130-131 and 144: epicsMutexLock(listLock), then the call of
\* mcoreThreadRuleDelete(name), which takes the lock a second time
AddLock(p) ==
    /\ Running(p) /\ pc[p] = "add_lock"
    /\ CanLock(p)
    /\ listLock' = [epicsMutexLock(p) EXCEPT !.count = @ + 1]
    /\ loc' = [loc EXCEPT ![p].caller = "add"]
    /\ pc' = [pc EXCEPT ![p] = "del_scan"]
    /\ UNCHANGED <<scen, files, init, threadRules, heap, thr, crashed>>

\* mcoreThreadRuleDelete called from the shell, line 144
DeleteLock(p) ==
    /\ Running(p) /\ pc[p] = "idle" /\ init.registered
    /\ CanLock(p)
    /\ listLock' = epicsMutexLock(p)
    /\ \E name \in RuleNames(scen) :
          loc' = [loc EXCEPT ![p] = [NoLoc EXCEPT !.name = name, !.caller = "shell"]]
    /\ pc' = [pc EXCEPT ![p] = "del_scan"]
    /\ UNCHANGED <<scen, files, init, threadRules, heap, thr, crashed>>

\* where mcoreThreadRuleDelete returns to
AfterDelete(p) == IF loc[p].caller = "add" THEN "add_link" ELSE "idle"

LocAfterDelete(p) ==
    IF loc[p].caller = "add" THEN [loc[p] EXCEPT !.prule = NULL] ELSE NoLoc

\* variant: the ellDelete of line 148 is missing, the rule found is freed
\* while it is still linked
DeleteScanNoUnlink(p) ==
    /\ Running(p) /\ pc[p] = "del_scan"
    /\ LET prule == findRule(threadRules, loc[p].name, 1) IN
          IF prule # NULL
          THEN /\ loc' = [loc EXCEPT ![p].prule = prule]
               /\ pc' = [pc EXCEPT ![p] = "del_free"]
          ELSE /\ loc' = [loc EXCEPT ![p] = LocAfterDelete(p)]
               /\ pc' = [pc EXCEPT ![p] = AfterDelete(p)]
    /\ listLock' = epicsMutexUnlock(p)
    /\ UNCHANGED <<scen, files, init, threadRules, heap, thr, crashed>>

\* lines 145-159: search the list; unlink the rule found and unlock
DeleteScan(p) ==
    /\ Running(p) /\ pc[p] = "del_scan"
    /\ LET prule == findRule(threadRules, loc[p].name, 1) IN
          IF prule # NULL
          THEN /\ threadRules' = ellDelete(threadRules, prule)
               /\ loc' = [loc EXCEPT ![p].prule = prule]
               /\ pc' = [pc EXCEPT ![p] = "del_free"]
          ELSE /\ loc' = [loc EXCEPT ![p] = LocAfterDelete(p)]
               /\ pc' = [pc EXCEPT ![p] = AfterDelete(p)]
               /\ UNCHANGED threadRules
    /\ listLock' = epicsMutexUnlock(p)
    /\ UNCHANGED <<scen, files, init, heap, thr, crashed>>

\* lines 150-155: free the unlinked rule and return
DeleteFree(p) ==
    /\ Running(p) /\ pc[p] = "del_free"
    /\ heap' = [heap EXCEPT ![loc[p].prule] = FreeCell]
    /\ loc' = [loc EXCEPT ![p] = LocAfterDelete(p)]
    /\ pc' = [pc EXCEPT ![p] = AfterDelete(p)]
    /\ UNCHANGED <<scen, files, init, threadRules, listLock, thr, crashed>>

\* line 132
AddLink(p) ==
    /\ Running(p) /\ pc[p] = "add_link"
    /\ threadRules' = ellAdd(threadRules, loc[p].node)
    /\ pc' = [pc EXCEPT ![p] = "add_unlock"]
    /\ UNCHANGED <<scen, files, init, heap, listLock, loc, thr, crashed>>

\* variant: line 133 is missing, mcoreThreadRuleAdd returns with the lock held
AddUnlockMissing(p) ==
    /\ Running(p) /\ pc[p] = "add_unlock"
    /\ loc' = [loc EXCEPT ![p].ret = 0]
    /\ pc' = [pc EXCEPT ![p] = "add_done"]
    /\ UNCHANGED <<scen, files, init, threadRules, heap, listLock, thr, crashed>>

\* lines 133-134
AddUnlock(p) ==
    /\ Running(p) /\ pc[p] = "add_unlock"
    /\ listLock' = epicsMutexUnlock(p)
    /\ loc' = [loc EXCEPT ![p].ret = 0]
    /\ pc' = [pc EXCEPT ![p] = "add_done"]
    /\ UNCHANGED <<scen, files, init, threadRules, heap, thr, crashed>>

\* the caller has the value returned at line 116, 124 or 134
AddReturn(p) ==
    /\ Running(p) /\ pc[p] = "add_done"
    /\ IF loc[p].file # ""
       THEN \* lines 339-340: the result is dropped, count++, the next line
            /\ loc' = [loc EXCEPT ![p] =
                          [NoLoc EXCEPT !.from = loc[p].from, !.file = loc[p].file,
                                        !.lineno = loc[p].lineno,
                                        !.count = loc[p].count + 1]]
            /\ pc' = [pc EXCEPT ![p] = "read_file"]
       ELSE /\ loc' = [loc EXCEPT ![p] = NoLoc]
            /\ pc' = [pc EXCEPT ![p] = "idle"]
    /\ UNCHANGED <<scen, files, init, threadRules, heap, listLock, thr, crashed>>

\* mcoreThreadRulesShow, lines 171-177
ShowLock(p) ==
    /\ Running(p) /\ pc[p] = "idle" /\ init.registered
    /\ CanLock(p)
    /\ listLock' = epicsMutexLock(p)
    /\ loc' = [loc EXCEPT ![p] = [NoLoc EXCEPT !.prule = ellFirst(threadRules)]]
    /\ pc' = [pc EXCEPT ![p] =
                 IF ellFirst(threadRules) = NULL THEN "show_unlock" ELSE "show_scan"]
    /\ UNCHANGED <<scen, files, init, threadRules, heap, thr, crashed>>

\* length of the buffer mcoreThreadRulesShow formats a cpuset into (line 168)
ShowBufLen == 128

\* lines 180-196: the row printed for a rule; buf is what cpusetToStr left in
\* the buffer, affinity the text printed in the AFFINITY column
showRow(r) ==
    LET buf == cpusetToStr(ShowBufLen, r.cpuset) IN
    [name |-> r.name, buf |-> buf,
     affinity |-> IF r.ch_affinity # 0 THEN buf ELSE Star]

\* lines 179-198: one row
ShowStep(p) ==
    /\ Running(p) /\ pc[p] = "show_scan"
    /\ LET next == ellNext(threadRules, loc[p].prule) IN
          /\ loc' = [loc EXCEPT ![p].out = Append(@, showRow(heap[loc[p].prule].rule)),
                                ![p].prule = next]
          /\ pc' = [pc EXCEPT ![p] = IF next = NULL THEN "show_unlock" ELSE "show_scan"]
    /\ UNCHANGED <<scen, files, init, threadRules, heap, listLock, thr, crashed>>

\* lines 175-176 and 199
ShowUnlock(p) ==
    /\ Running(p) /\ pc[p] = "show_unlock"
    /\ listLock' = epicsMutexUnlock(p)
    /\ loc' = [loc EXCEPT ![p] = NoLoc]
    /\ pc' = [pc EXCEPT ![p] = "idle"]
    /\ UNCHANGED <<scen, files, init, threadRules, heap, thr, crashed>>

\* a thread is created and the thread library calls the hook functions that
\* have been added with epicsThreadHookAdd, threadStartHook(id) among them
HookCall(p) ==
    /\ Running(p) /\ pc[p] = "idle" /\ init.hooks >= 1
    /\ \E name \in ThreadNames(scen), prio \in InitPriorities(scen) :
          thr' = [thr EXCEPT ![p] = NewThread(name, prio)]
    /\ loc' = [loc EXCEPT ![p] = [NoLoc EXCEPT !.id = p,
                                                !.pending = init.hooks - 1]]
    /\ pc' = [pc EXCEPT ![p] = "hook_lock"]
    /\ UNCHANGED <<scen, files, init, threadRules, heap, listLock, crashed>>

\* variant: threadStartHook scans the list without taking the lock
HookLockSkipped(p) ==
    /\ Running(p) /\ pc[p] = "hook_lock"
    /\ loc' = [loc EXCEPT ![p].prule = ellFirst(threadRules)]
    /\ pc' = [pc EXCEPT ![p] =
                 IF ellFirst(threadRules) = NULL THEN "hook_unlock" ELSE "hook_scan"]
    /\ UNCHANGED <<scen, files, init, threadRules, heap, listLock, thr, crashed>>

\* lines 271-276
HookLock(p) ==
    /\ Running(p) /\ pc[p] = "hook_lock"
    /\ CanLock(p)
    /\ listLock' = epicsMutexLock(p)
    /\ loc' = [loc EXCEPT ![p].prule = ellFirst(threadRules)]
    /\ pc' = [pc EXCEPT ![p] =
                 IF ellFirst(threadRules) = NULL THEN "hook_unlock" ELSE "hook_scan"]
    /\ UNCHANGED <<scen, files, init, threadRules, heap, thr, crashed>>

\* lines 277-282: one rule of the scan
HookStep(p) ==
    /\ Running(p) /\ pc[p] = "hook_scan"
    /\ LET prule == loc[p].prule
           r     == heap[prule].rule
           id    == loc[p].id
           next  == ellNext(threadRules, prule)
           nextpc == IF next = NULL THEN "hook_unlock" ELSE "hook_scan"
       IN  \E outcome \in regexecOutcomes(r.reg, thr[id].name) :
              IF outcome = "crash"
              THEN /\ crashed' = TRUE
                   /\ UNCHANGED <<thr, loc, pc>>
              ELSE IF outcome = "match"
              THEN \E fail \in FailChoices(scen, r) :
                      LET res == modifyRTProperties(thr[id], r, fail) IN
                      /\ thr' = [thr EXCEPT ![id] = res.id]
                      /\ loc' = [loc EXCEPT ![p].applied = Append(@, prule),
                                            ![p].calls = res.calls,
                                            ![p].prule = next]
                      /\ pc' = [pc EXCEPT ![p] = nextpc]
                      /\ UNCHANGED crashed
              ELSE /\ loc' = [loc EXCEPT ![p].prule = next]
                   /\ pc' = [pc EXCEPT ![p] = nextpc]
                   /\ UNCHANGED <<thr, crashed>>
    /\ UNCHANGED <<scen, files, init, threadRules, heap, listLock>>

\* lines 274 and 283
HookUnlock(p) ==
    /\ Running(p) /\ pc[p] = "hook_unlock"
    /\ listLock' = epicsMutexUnlock(p)
    /\ IF loc[p].pending > 0
       THEN /\ loc' = [loc EXCEPT ![p].pending = @ - 1, ![p].prule = NULL]
            /\ pc' = [pc EXCEPT ![p] = "hook_lock"]
       ELSE /\ loc' = [loc EXCEPT ![p] = NoLoc]
            /\ pc' = [pc EXCEPT ![p] = "idle"]
    /\ UNCHANGED <<scen, files, init, threadRules, heap, thr, crashed>>

\* mcoreThreadModify, lines 291-295: parse into the automatic rule, apply it
ModifyCall(p) ==
    /\ Running(p) /\ pc[p] = "idle" /\ init.registered
    /\ \E id \in Active, m \in ModifyInputs(scen), stack \in StackContents(scen) :
          LET rule == parseModifiers(stack, m.policy, m.priority, m.cpus) IN
          \E fail \in FailChoices(scen, rule) :
              LET res == modifyRTProperties(thr[id], rule, fail) IN
              /\ thr' = [thr EXCEPT ![id] = res.id]
              /\ loc' = [loc EXCEPT ![p] =
                            [NoLoc EXCEPT !.id = id, !.policy = m.policy,
                                          !.priority = m.priority, !.cpus = m.cpus,
                                          !.rule = rule, !.calls = res.calls]]
    /\ pc' = [pc EXCEPT ![p] = "mod_done"]
    /\ UNCHANGED <<scen, files, init, threadRules, heap, listLock, crashed>>

\* line 296
ModifyReturn(p) ==
    /\ Running(p) /\ pc[p] = "mod_done"
    /\ loc' = [loc EXCEPT ![p] = NoLoc]
    /\ pc' = [pc EXCEPT ![p] = "idle"]
    /\ UNCHANGED <<scen, files, init, threadRules, heap, listLock, thr, crashed>>

\* ------------------------------------------------------------ initialisation
\* lines 323-338: what readRulesFromFile makes of one line. The name starts at
\* the start of the line (args[0] = line), the search for the separators
\* starts after the leading white space, the pattern ends at the first \n or \r
RECURSIVE IndexOfEol(_, _)
IndexOfEol(s, i) ==
    IF i > Len(s) THEN 0
    ELSE IF s[i] = "\n" \/ s[i] = "\r" THEN i
    ELSE IndexOfEol(s, i + 1)

\* variant: a line with three separators is taken as a rule with an empty
\* pattern
parseLineFourFields(line) ==
    LET cp == SkipSpace(line, 1)
        c1 == IndexOf(line, ":", cp)
        c2 == IF c1 = 0 THEN 0 ELSE IndexOf(line, ":", c1 + 1)
        c3 == IF c2 = 0 THEN 0 ELSE IndexOf(line, ":", c2 + 1)
        eol == IF c3 = 0 THEN 0 ELSE IndexOfEol(line, c3 + 1)
    IN  IF cp > Len(line) \/ line[cp] = "#" THEN [kind |-> "skip"]
        ELSE IF c3 = 0 THEN [kind |-> "error"]
        ELSE [kind |-> "rule",
              name |-> SubSeq(line, 1, c1 - 1),
              in |-> RuleInput(SubSeq(line, c1 + 1, c2 - 1),
                               SubSeq(line, c2 + 1, c3 - 1),
                               SubSeq(line, c3 + 1,
                                      IF eol = 0 THEN Len(line) ELSE eol - 1),
                               <<>>)]

parseLine(line) ==
    LET cp == SkipSpace(line, 1)
        c1 == IndexOf(line, ":", cp)
        c2 == IF c1 = 0 THEN 0 ELSE IndexOf(line, ":", c1 + 1)
        c3 == IF c2 = 0 THEN 0 ELSE IndexOf(line, ":", c2 + 1)
        c4 == IF c3 = 0 THEN 0 ELSE IndexOf(line, ":", c3 + 1)
        eol == IF c4 = 0 THEN 0 ELSE IndexOfEol(line, c4 + 1)
    IN  IF cp > Len(line) \/ line[cp] = "#" THEN [kind |-> "skip"]
        ELSE IF c4 = 0 THEN [kind |-> "error"]
        ELSE [kind |-> "rule",
              name |-> SubSeq(line, 1, c1 - 1),
              in |-> RuleInput(SubSeq(line, c1 + 1, c2 - 1),
                               SubSeq(line, c2 + 1, c3 - 1),
                               SubSeq(line, c3 + 1, c4 - 1),
                               SubSeq(line, c4 + 1,
                                      IF eol = 0 THEN Len(line) ELSE eol - 1))]

\* threadShow.c line 145: (int) log10(NO_OF_CPUS-1) + 1
cpuDigitsOf(n) == Len(IntToStr(n - 1))

\* mcoreRegister, line 171: the test of firstTime
RegisterCall(p) ==
    /\ Running(p) /\ pc[p] = "idle"
    /\ IF init.firstTime = 0
       THEN UNCHANGED <<pc, loc>>
       ELSE /\ pc' = [pc EXCEPT ![p] = "reg_first"]
            /\ loc' = [loc EXCEPT ![p] = [NoLoc EXCEPT !.from = "register"]]
    /\ UNCHANGED <<scen, files, init, threadRules, heap, listLock, thr, crashed>>

\* variant: the calls of mcoreThreadShowInit and mcoreThreadRulesInit (lines
\* 174-175) are missing
RegisterFirstNoInit(p) ==
    /\ Running(p) /\ pc[p] = "reg_first"
    /\ init' = [init EXCEPT !.firstTime = 0]
    /\ pc' = [pc EXCEPT ![p] = "reg_iocsh"]
    /\ UNCHANGED <<scen, files, threadRules, heap, listLock, loc, thr, crashed>>

\* lines 172-174: firstTime = 0 and mcoreThreadShowInit, whose once() runs the
\* first time
RegisterFirst(p) ==
    /\ Running(p) /\ pc[p] = "reg_first"
    /\ init' = [init EXCEPT !.firstTime = 0,
                            !.showOnceFlag = "done",
                            !.cpuDigits = IF init.showOnceFlag = "init"
                                          THEN cpuDigitsOf(NoOfCpus) ELSE @]
    /\ pc' = [pc EXCEPT ![p] = "rules_init"]
    /\ UNCHANGED <<scen, files, threadRules, heap, listLock, loc, thr, crashed>>

\* mcoreThreadRulesInit called by another module of the application
RulesInitCall(p) ==
    /\ Running(p) /\ pc[p] = "idle"
    /\ pc' = [pc EXCEPT ![p] = "rules_init"]
    /\ loc' = [loc EXCEPT ![p] = [NoLoc EXCEPT !.from = "api"]]
    /\ UNCHANGED <<scen, files, init, threadRules, heap, listLock, thr, crashed>>

\* where mcoreThreadRulesInit returns to
AfterRulesInit(p) == IF loc[p].from = "register" THEN "reg_iocsh" ELSE "idle"

\* variant: mcoreThreadRulesInit calls once() directly, whenever no other
\* thread is inside it
OnceEnterNoFlag(p) ==
    /\ Running(p) /\ pc[p] = "rules_init"
    /\ init.onceFlag # "running"
    /\ init' = [init EXCEPT !.onceFlag = "running", !.locks = @ + 1]
    /\ listLock' = [owner |-> 0, count |-> 0]
    /\ loc' = [loc EXCEPT ![p].file = "sys", ![p].lineno = 0, ![p].count = 0]
    /\ pc' = [pc EXCEPT ![p] = "read_file"]
    /\ UNCHANGED <<scen, files, threadRules, heap, thr, crashed>>

\* epicsThreadOnce finds the flag untouched and calls once(); lines 354-365:
\* the mutex is created and readRulesFromFile(sysConfigFile) is called
OnceEnter(p) ==
    /\ Running(p) /\ pc[p] = "rules_init"
    /\ init.onceFlag = "init"
    /\ init' = [init EXCEPT !.onceFlag = "running", !.locks = @ + 1]
    /\ listLock' = [owner |-> 0, count |-> 0]
    /\ loc' = [loc EXCEPT ![p].file = "sys", ![p].lineno = 0, ![p].count = 0]
    /\ pc' = [pc EXCEPT ![p] = "read_file"]
    /\ UNCHANGED <<scen, files, threadRules, heap, thr, crashed>>

\* epicsThreadOnce finds that once() has run (it waits while once() is running)
OnceSkip(p) ==
    /\ Running(p) /\ pc[p] = "rules_init"
    /\ init.onceFlag = "done"
    /\ pc' = [pc EXCEPT ![p] = AfterRulesInit(p)]
    /\ loc' = [loc EXCEPT ![p] = NoLoc]
    /\ UNCHANGED <<scen, files, init, threadRules, heap, listLock, thr, crashed>>

\* readRulesFromFile returns count (line 331 or 344); once() goes on with the
\* user file (line 368) or with epicsThreadHookAdd (line 371)
FileReturn(p) ==
    /\ init' = [init EXCEPT !.loaded =
                   Append(@, [file |-> loc[p].file, count |-> loc[p].count])]
    /\ IF loc[p].file = "sys"
       THEN /\ loc' = [loc EXCEPT ![p].file = "user", ![p].lineno = 0,
                                  ![p].count = 0]
            /\ UNCHANGED pc
       ELSE /\ loc' = [loc EXCEPT ![p].file = "", ![p].lineno = 0, ![p].count = 0]
            /\ pc' = [pc EXCEPT ![p] = "once_hook"]

\* readRulesFromFile, lines 313-341: fopen or the next fgets, and what is done
\* with the line up to the allocation of its rule in mcoreThreadRuleAdd
ReadLine(p) ==
    /\ Running(p) /\ pc[p] = "read_file"
    /\ LET f      == files[loc[p].file]
           eof    == ~f.open \/ loc[p].lineno >= Len(f.lines)
           parsed == IF eof THEN [kind |-> "skip"]
                     ELSE parseLine(f.lines[loc[p].lineno + 1])
           read   == [loc[p] EXCEPT !.lineno = @ + 1]
       IN  IF eof \/ parsed.kind = "error"
           THEN FileReturn(p) /\ UNCHANGED <<heap, crashed>>
           ELSE IF parsed.kind = "skip"
           THEN /\ loc' = [loc EXCEPT ![p] = read]
                /\ UNCHANGED <<init, pc, heap, crashed>>
           ELSE /\ \E alloc \in AllocOutcomes(scen) :
                      AddBegin(p, read, parsed.name, parsed.in, alloc)
                /\ UNCHANGED init
    /\ UNCHANGED <<scen, files, threadRules, listLock, thr>>

\* line 371, and the return of once(): epicsThreadOnce marks the flag done
OnceHookAdd(p) ==
    /\ Running(p) /\ pc[p] = "once_hook"
    /\ init' = [init EXCEPT !.hooks = @ + 1, !.onceFlag = "done"]
    /\ pc' = [pc EXCEPT ![p] = AfterRulesInit(p)]
    /\ loc' = [loc EXCEPT ![p] = NoLoc]
    /\ UNCHANGED <<scen, files, threadRules, heap, listLock, thr, crashed>>

\* mcoreRegister, lines 176-183: the shell commands are registered
RegisterIocsh(p) ==
    /\ Running(p) /\ pc[p] = "reg_iocsh"
    /\ init' = [init EXCEPT !.registered = TRUE]
    /\ pc' = [pc EXCEPT ![p] = "idle"]
    /\ UNCHANGED <<scen, files, threadRules, heap, listLock, loc, thr, crashed>>

Next ==
    \E p \in Procs :
        \/ RegisterCall(p) \/ RegisterFirst(p) \/ RegisterIocsh(p)
        \/ RulesInitCall(p) \/ OnceEnter(p) \/ OnceSkip(p)
        \/ ReadLine(p) \/ OnceHookAdd(p)
        \/ AddAlloc(p) \/ AddLock(p) \/ AddLink(p) \/ AddUnlock(p) \/ AddReturn(p)
        \/ DeleteLock(p) \/ DeleteScan(p) \/ DeleteFree(p)
        \/ ShowLock(p) \/ ShowStep(p) \/ ShowUnlock(p)
        \/ HookCall(p) \/ HookLock(p) \/ HookStep(p) \/ HookUnlock(p)
        \/ ModifyCall(p) \/ ModifyReturn(p)

Spec == Init /\ [][Next]_vars

SpecRules == InitRules /\ [][Next]_vars

SpecModify == InitModify /\ [][Next]_vars

SpecCodec == InitCodec /\ [][Next]_vars

SpecFailures == InitFailures /\ [][Next]_vars

SpecFiles == InitFiles /\ [][Next]_vars

SpecCached == InitCached /\ [][Next]_vars

\* the steps that carry on an operation that has been called: the scheduler
\* runs every thread that can run, and a thread waiting in epicsMutexLock gets
\* the mutex when it is released again and again
Continue(p) ==
    \/ RegisterFirst(p) \/ RegisterIocsh(p) \/ OnceEnter(p) \/ OnceSkip(p)
    \/ ReadLine(p) \/ OnceHookAdd(p)
    \/ AddLock(p) \/ AddLink(p) \/ AddUnlock(p) \/ AddReturn(p)
    \/ DeleteScan(p) \/ DeleteFree(p)
    \/ ShowStep(p) \/ ShowUnlock(p)
    \/ HookLock(p) \/ HookStep(p) \/ HookUnlock(p)
    \/ ModifyReturn(p)

Fairness ==
    \A p \in Procs :
        /\ WF_vars(Continue(p))
        /\ SF_vars(AddLock(p) \/ HookLock(p))

SpecFair == InitFair /\ [][Next]_vars /\ Fairness


\* ------------------------------------------------------------ properties
InList(n) == \E i \in 1 .. Len(threadRules) : threadRules[i] = n

NameCount(name) ==
    Cardinality({i \in 1 .. Len(threadRules) : heap[threadRules[i]].rule.name = name})

ClampToRange(v) ==
    IF v > epicsThreadPriorityMax THEN epicsThreadPriorityMax
    ELSE IF v < epicsThreadPriorityMin THEN epicsThreadPriorityMin
    ELSE v

IsRelativeText(text) == Specified(text) /\ text[1] \in {"+", "-"}

IsAbsoluteText(text) == Specified(text) /\ text[1] \notin {"+", "-"}

\* p is inside mcoreThreadRuleAdd and has its new rule allocated
AddPcs == {"add_lock", "del_scan", "del_free", "add_link", "add_unlock"}

InAdd(p) == pc[p] \in AddPcs /\ loc[p].node # NULL

\* p holds the lock inside mcoreThreadRuleAdd
InAddLocked(p) == InAdd(p) /\ pc[p] # "add_lock"

\* p is inside the list scan of the hook or of mcoreThreadRulesShow
ScanPcs == {"hook_scan", "hook_unlock", "show_scan", "show_unlock"}

\* this step is a call of mcoreThreadModify by p
ModifyStep(p) == pc[p] = "idle" /\ pc'[p] = "mod_done"

\* this step hands a rule to modifyRTProperties in p's hook
HookApplyStep(p) ==
    pc[p] = "hook_scan" /\ Len(loc'[p].applied) = Len(loc[p].applied) + 1

SchedCalls ==
    {"pthread_attr_setschedpolicy", "pthread_attr_setschedparam", "pthread_setschedparam"}

AffinityCalls == {"pthread_attr_setaffinity_np", "pthread_setaffinity_np"}

CallsMade(calls) == {calls[i] : i \in 1 .. Len(calls)}

\* C1: at every moment of every interleaving of mcoreThreadRuleAdd and
\* mcoreThreadRuleDelete calls, no two rules of the list have the same name.
C1_UniqueNames ==
    \A i, j \in 1 .. Len(threadRules) :
        i # j => heap[threadRules[i]].rule.name # heap[threadRules[j]].rule.name

\* two threads are adding a rule of the same name, one of them has linked its
\* rule and the other has its rule allocated and waits for the lock
C1_Witness ==
    \E p, q \in Procs :
        /\ p # q
        /\ pc[p] = "add_unlock" /\ pc[q] = "add_lock"
        /\ loc[p].name = loc[q].name
        /\ Len(threadRules) >= 1

\* C2: when a hook invocation has finished its scan, the rules it handed to
\* modifyRTProperties are exactly the rules of the list whose pattern matches
\* the thread's name, each once, in list order; and the hook returns.
PatternMatches(pattern, name) ==
    RegexCompiles(pattern) /\ ProgMatches(regcomp(pattern).prog, name)

C2_HookAppliesMatching ==
    /\ ~crashed
    /\ \A p \in Procs :
          pc[p] = "hook_unlock" =>
              loc[p].applied =
                  SelectSeq(threadRules,
                            LAMBDA n : PatternMatches(heap[n].rule.pattern,
                                                      thr[loc[p].id].name))

\* C3: a pattern that does not compile makes mcoreThreadRuleAdd return the
\* error status, and no rule with such a pattern is ever in the list.
C3_BadPatternRejected ==
    /\ \A i \in 1 .. Len(threadRules) : RegexCompiles(heap[threadRules[i]].rule.pattern)
    /\ \A p \in Procs :
          (pc[p] = "add_done" /\ ~RegexCompiles(loc[p].pattern)) =>
              (loc[p].ret = -1 /\ ~InList(loc[p].node))

\* C4: a signed priority text is stored as its delta d unclamped, and applying
\* it to a thread of priority p sets the priority to p + d clamped to the
\* portable range.
C4_DeltaKeptAtParse ==
    \A p \in Procs :
        (InAdd(p) /\ IsRelativeText(loc[p].priority)) =>
            heap[loc[p].node].rule.priority = atoi(loc[p].priority)

C4_DeltaAddedAtApply ==
    \A p \in Procs :
        (ModifyStep(p) /\ IsRelativeText(loc'[p].priority)) =>
            thr'[loc'[p].id].osiPriority =
                ClampToRange(thr[loc'[p].id].osiPriority + atoi(loc'[p].priority))

C4_RelativeClampedAfterAdd ==
    [](C4_DeltaKeptAtParse) /\ [][C4_DeltaAddedAtApply]_vars

\* C5: the portable priority of every thread stays within
\* [epicsThreadPriorityMin, epicsThreadPriorityMax].
C5_PriorityInRange ==
    \A p \in Procs :
        /\ thr[p].osiPriority >= epicsThreadPriorityMin
        /\ thr[p].osiPriority <= epicsThreadPriorityMax

\* C6: mcoreThreadModify leaves alone every attribute whose text is "*" or
\* empty, and makes no OS set-call for it.
C6_ModifyFrameStep ==
    \A p \in Procs :
        ModifyStep(p) =>
            LET a      == loc'[p]
                before == thr[a.id]
                after  == thr'[a.id]
                made   == CallsMade(a.calls)
            IN  /\ ~Specified(a.policy) =>
                      /\ "pthread_attr_setschedpolicy" \notin made
                      /\ after.schedPolicy = before.schedPolicy
                      /\ after.isRealTimeScheduled = before.isRealTimeScheduled
                      /\ after.live.policy = before.live.policy
                /\ ~Specified(a.priority) =>
                      /\ "pthread_attr_setschedparam" \notin made
                      /\ after.osiPriority = before.osiPriority
                      /\ after.live.param = before.live.param
                /\ (~Specified(a.policy) /\ ~Specified(a.priority)) =>
                      made \cap SchedCalls = {}
                /\ ~Specified(a.cpus) =>
                      /\ made \cap AffinityCalls = {}
                      /\ after.live.affinity = before.live.affinity

C6_ModifyFrame == [][C6_ModifyFrameStep]_vars

\* C7: mcoreThreadModify with an unsigned priority text N sets the portable
\* priority to N clamped to the range, whatever the priority was before.
C7_AbsoluteStep ==
    \A p \in Procs :
        (ModifyStep(p) /\ IsAbsoluteText(loc'[p].priority)) =>
            thr'[loc'[p].id].osiPriority = ClampToRange(atoi(loc'[p].priority))

C7_ModifyAbsolute == [][C7_AbsoluteStep]_vars

\* C8: a rule added with "*" or an empty text for a field has that field's
\* change flag clear, keeps it while it is in the list, and the hook applying
\* it makes no scheduling call and leaves the cached policy and priority alone
\* when policy and priority are both unspecified, and makes no affinity call
\* when cpus is unspecified.
C8_ParseFrame ==
    \A p \in Procs :
        InAdd(p) =>
            LET r == heap[loc[p].node].rule IN
            /\ ~Specified(loc[p].policy) => r.ch_policy = 0
            /\ ~Specified(loc[p].priority) => r.ch_priority = 0
            /\ ~Specified(loc[p].cpus) => r.ch_affinity = 0
            /\ r.cpus = loc[p].cpus

C8_StoredRuleKept ==
    \A n \in Nodes :
        (InList(n) /\ \E i \in 1 .. Len(threadRules') : threadRules'[i] = n) =>
            heap'[n] = heap[n]

C8_ApplyFrame ==
    \A p \in Procs :
        HookApplyStep(p) =>
            LET r      == heap[loc[p].prule].rule
                before == thr[loc[p].id]
                after  == thr'[loc[p].id]
                made   == CallsMade(loc'[p].calls)
            IN  /\ (r.ch_policy = 0 /\ r.ch_priority = 0) =>
                      /\ made \cap SchedCalls = {}
                      /\ after.schedPolicy = before.schedPolicy
                      /\ after.osiPriority = before.osiPriority
                      /\ after.live.policy = before.live.policy
                      /\ after.live.param = before.live.param
                /\ (r.ch_affinity = 0 /\ ~Specified(r.cpus)) =>
                      /\ made \cap AffinityCalls = {}
                      /\ after.live.affinity = before.live.affinity

C8_UnspecifiedRuleFields ==
    [](C8_ParseFrame) /\ [][C8_StoredRuleKept /\ C8_ApplyFrame]_vars

\* a hook has just applied a rule that was added with "*" in all three fields
\* to a thread it matches, and made no OS call for it
C8_Witness ==
    \E p \in Procs :
        /\ pc[p] \in {"hook_scan", "hook_unlock"}
        /\ Len(loc[p].applied) >= 1
        /\ LET r == heap[loc[p].applied[Len(loc[p].applied)]].rule IN
              /\ r.cpus = Star /\ r.ch_policy = 0 /\ r.ch_priority = 0
              /\ r.reg.ok
        /\ loc[p].calls = <<>>

\* C9: mcoreThreadRuleDelete(name) keeps every rule of another name, with its
\* contents and in the same relative order; with no rule of that name the
\* list is unchanged.
C9_DeleteStep ==
    \A p \in Procs :
        /\ (pc[p] = "del_scan" /\ pc'[p] # "del_scan") =>
              LET others(n) == heap[n].rule.name # loc[p].name IN
              /\ SelectSeq(threadRules', others) = SelectSeq(threadRules, others)
              /\ \A i \in 1 .. Len(threadRules) :
                    others(threadRules[i]) =>
                        heap'[threadRules[i]] = heap[threadRules[i]]
              /\ NameCount(loc[p].name) = 0 => threadRules' = threadRules
        /\ (pc[p] = "del_free" /\ pc'[p] # "del_free") =>
              /\ threadRules' = threadRules
              /\ \A i \in 1 .. Len(threadRules) :
                    heap'[threadRules[i]] = heap[threadRules[i]]

C9_DeleteKeepsOthers == [][C9_DeleteStep]_vars

\* mcoreThreadRuleDelete called from the shell has unlinked its rule and a
\* rule of another name is still in the list
C9_Witness ==
    \E p \in Procs :
        /\ pc[p] = "del_free" /\ loc[p].caller = "shell"
        /\ Len(threadRules) >= 1
        /\ heap[threadRules[1]].rule.name # loc[p].name

\* C10: while a thread is between taking and releasing the lock in
\* mcoreThreadRuleAdd, no other thread is inside a scan of the hook or of
\* mcoreThreadRulesShow, so none sees the list without the old and the new
\* rule or with both; when the new rule is linked it is the only rule of its
\* name and carries the texts and flags of this call.
C10_AtomicReplace ==
    \A q \in Procs :
        /\ InAddLocked(q) =>
              /\ listLock.owner = q
              /\ \A p \in Procs \ {q} : pc[p] \notin ScanPcs
        /\ \A p \in Procs : pc[p] \in ScanPcs =>
              \A i \in 1 .. Len(threadRules) :
                  NameCount(heap[threadRules[i]].rule.name) = 1
        /\ pc[q] = "add_unlock" =>
              LET r == heap[loc[q].node].rule IN
              /\ InList(loc[q].node)
              /\ NameCount(loc[q].name) = 1
              /\ r.name = loc[q].name
              /\ r.pattern = loc[q].pattern
              /\ r.cpus = loc[q].cpus
              /\ (r.ch_priority = 1) = Specified(loc[q].priority)
              /\ (r.ch_affinity = 1) = Specified(loc[q].cpus)

\* a thread replacing a rule has unlinked the old rule and not yet linked the
\* new one, while a newly created thread waits for the lock in the hook
C10_Witness ==
    \E q, p \in Procs :
        /\ q # p
        /\ pc[q] = "del_free" /\ loc[q].caller = "add"
        /\ pc[p] = "hook_lock"

\* C11: every rule reachable from the list is fully initialised (its cell is
\* allocated, name, pattern and cpus texts, modifier flags and values and the
\* compiled regex are those of the call that built it), a rule is linked only
\* by a thread that holds the lock, and while a thread is between the first
\* and the last step of a scan of the hook or of mcoreThreadRulesShow no step
\* of any thread changes the list or a rule in it.
FullyInitialised(r) ==
    /\ Len(r.name) > 0
    /\ r.reg = regcomp(r.pattern)
    /\ r.ch_policy \in {0, 1} /\ r.ch_priority \in {0, 1}
    /\ r.ch_affinity \in {0, 1} /\ r.rel_priority \in {0, 1}
    /\ (r.ch_affinity = 1) = Specified(r.cpus)
    /\ r.ch_affinity = 1 => r.cpuset = strToCpuset(r.cpus)
    /\ r.ch_priority = 0 => (r.rel_priority = 0 /\ r.priority = 0)
    /\ r.ch_policy = 0 => r.policy = 0

C11_RulesInitialised ==
    /\ \A i \in 1 .. Len(threadRules) :
          /\ heap[threadRules[i]].st = "used"
          /\ FullyInitialised(heap[threadRules[i]].rule)
    /\ \A p \in Procs :
          InAdd(p) =>
              /\ heap[loc[p].node].rule =
                     newRule(loc[p].name, loc[p].policy, loc[p].priority,
                             loc[p].cpus, loc[p].pattern)
              /\ InList(loc[p].node) =>
                     (pc[p] = "add_unlock" /\ listLock.owner = p)

C11_ScanStep ==
    (\E p \in Procs : pc[p] \in ScanPcs) =>
        /\ threadRules' = threadRules
        /\ \A i \in 1 .. Len(threadRules) :
              heap'[threadRules[i]] = heap[threadRules[i]]

C11_NoTornObservation == [](C11_RulesInitialised) /\ [][C11_ScanStep]_vars

\* a hook is in the middle of its scan of a non-empty list while another
\* thread has a new rule built and waits for the lock to link it
C11_Witness ==
    \E p, q \in Procs :
        /\ p # q
        /\ pc[p] = "hook_scan" /\ loc[p].prule # NULL
        /\ pc[q] = "add_lock" /\ loc[q].node # NULL

\* C12: strToPolicy ignores case, skips one leading "SCHED_" and decides on
\* the first remaining character: o, f, r, b, i give OTHER, FIFO, RR, BATCH,
\* IDLE, anything else (also nothing remaining) gives -1. So "f", "FIFO",
\* "fifo" and "SCHED_FIFO" give SCHED_FIFO, and "xyz" and "SCHED_" give -1.
LowerText(t) == [k \in 1 .. Len(t) |-> tolower(t[k])]

AfterSched(t) ==
    IF Len(t) >= 6 /\ SubSeq(LowerText(t), 1, 6) = <<"s", "c", "h", "e", "d", "_">>
    THEN SubSeq(t, 7, Len(t))
    ELSE t

PolicyOfLetter(c) ==
    CASE c = "o" -> SCHED_OTHER
      [] c = "f" -> SCHED_FIFO
      [] c = "r" -> SCHED_RR
      [] c = "b" -> SCHED_BATCH
      [] c = "i" -> SCHED_IDLE
      [] OTHER -> -1

ExpectedPolicy(t) ==
    IF AfterSched(t) = <<>> THEN -1
    ELSE PolicyOfLetter(LowerText(AfterSched(t))[1])

FifoTexts ==
    {<<"f">>, <<"F", "I", "F", "O">>, <<"f", "i", "f", "o">>,
     <<"S", "C", "H", "E", "D", "_", "F", "I", "F", "O">>}

RejectedTexts == {<<"x", "y", "z">>, <<"S", "C", "H", "E", "D", "_">>}

C12_PolicyDecode ==
    \A p \in Procs :
        (InAdd(p) /\ Specified(loc[p].policy)) =>
            LET text == loc[p].policy
                v    == strToPolicy(text)
                r    == heap[loc[p].node].rule
            IN  /\ v = ExpectedPolicy(text)
                /\ text \in FifoTexts => v = SCHED_FIFO
                /\ text \in RejectedTexts => v = -1
                /\ v # -1 => (r.ch_policy = 1 /\ r.policy = v)
                /\ v = -1 => r.ch_policy = 0

\* a rule is being added with the policy text "SCHED_FIFO" and has SCHED_FIFO
\* stored as the policy to set
C12_Witness ==
    \E p \in Procs :
        /\ InAdd(p)
        /\ loc[p].policy = <<"S", "C", "H", "E", "D", "_", "F", "I", "F", "O">>
        /\ heap[loc[p].node].rule.ch_policy = 1
        /\ heap[loc[p].node].rule.policy = SCHED_FIFO

\* C13: in mcoreThreadRuleAdd and in mcoreThreadModify a policy text that
\* does not decode leaves the change-policy flag clear and no policy is set;
\* the add still links the rule and returns 0; the priority and cpus texts of
\* the same call are parsed into the rule and applied (their OS calls are made
\* and the affinity becomes the set given).
Undecodable(policy) == Specified(policy) /\ strToPolicy(policy) = -1

\* r is a rule built from a call whose policy text does not decode
UndecodableRule(r) ==
    \E in \in RuleInputs(scen) :
        /\ Undecodable(in.policy)
        /\ r = newRule(r.name, in.policy, in.priority, in.cpus, in.pattern)

C13_AddSoftError ==
    \A p \in Procs :
        (pc[p] \in AddPcs \cup {"add_done"} /\ loc[p].node # NULL
            /\ Undecodable(loc[p].policy)) =>
            LET r == heap[loc[p].node].rule IN
            /\ pc[p] # "add_done" =>
                  /\ r.ch_policy = 0
                  /\ Specified(loc[p].priority) =>
                        (r.ch_priority = 1
                            /\ r.priority = ClampToRange(atoi(loc[p].priority)))
                  /\ Specified(loc[p].cpus) =>
                        (r.ch_affinity = 1 /\ r.cpuset = strToCpuset(loc[p].cpus))
            /\ pc[p] = "add_unlock" => InList(loc[p].node)
            /\ pc[p] = "add_done" => loc[p].ret = 0

C13_ApplySteps ==
    \A p \in Procs :
        /\ (HookApplyStep(p) /\ UndecodableRule(heap[loc[p].prule].rule)) =>
              LET r      == heap[loc[p].prule].rule
                  before == thr[loc[p].id]
                  after  == thr'[loc[p].id]
                  made   == CallsMade(loc'[p].calls)
              IN  /\ "pthread_attr_setschedpolicy" \notin made
                  /\ after.schedPolicy = before.schedPolicy
                  /\ r.ch_priority = 1 =>
                        {"pthread_attr_setschedparam", "pthread_setschedparam"}
                            \subseteq made
                  /\ r.ch_affinity = 1 =>
                        (AffinityCalls \subseteq made /\ after.live.affinity = r.cpuset)
        /\ (ModifyStep(p) /\ Undecodable(loc'[p].policy)) =>
              LET a      == loc'[p]
                  before == thr[a.id]
                  after  == thr'[a.id]
                  made   == CallsMade(a.calls)
              IN  /\ a.rule.ch_policy = 0
                  /\ "pthread_attr_setschedpolicy" \notin made
                  /\ after.schedPolicy = before.schedPolicy
                  /\ Specified(a.priority) =>
                        /\ a.rule.ch_priority = 1
                        /\ {"pthread_attr_setschedparam", "pthread_setschedparam"}
                               \subseteq made
                  /\ Specified(a.cpus) =>
                        /\ AffinityCalls \subseteq made
                        /\ after.live.affinity = strToCpuset(a.cpus)

C13_BadPolicyIsDontChange == [](C13_AddSoftError) /\ [][C13_ApplySteps]_vars

\* mcoreThreadModify has just been called with the policy text "xyz" and a
\* priority and a cpus text, while a rule added with "xyz" is in the list
C13_Witness ==
    \E p \in Procs :
        /\ pc[p] = "mod_done"
        /\ Undecodable(loc[p].policy)
        /\ Specified(loc[p].priority) /\ Specified(loc[p].cpus)
        /\ thr[loc[p].id].live.affinity = strToCpuset(loc[p].cpus)
        /\ \E i \in 1 .. Len(threadRules) :
              UndecodableRule(heap[threadRules[i]].rule)

\* C14: for every set s of cpus below NoOfCpus, the text cpusetToStr writes
\* for s into a buffer long enough parses back to s with strToCpuset.
\* mcoreThreadRulesShow formats the cpuset of every rule it prints.
RowRule(k) == heap[threadRules[k]].rule

C14_ParseOfFormat ==
    \A p \in Procs :
        pc[p] \in {"show_scan", "show_unlock"} =>
            \A k \in 1 .. Len(loc[p].out) :
                RowRule(k).cpuset \subseteq AllCpus =>
                    /\ Len(loc[p].out[k].buf) < ShowBufLen - 1
                    /\ strToCpuset(loc[p].out[k].buf) = RowRule(k).cpuset

\* mcoreThreadRulesShow has formatted the cpuset {0, 3, 4, 5}
C14_Witness ==
    \E p \in Procs :
        /\ pc[p] = "show_unlock"
        /\ Len(loc[p].out) = 1
        /\ RowRule(1).cpuset = {0, 3, 4, 5}
        /\ loc[p].out[1].buf = <<"0", ",", "3", "-", "5">>

\* C15: for a valid cpus text t with indices below NoOfCpus, the text
\* cpusetToStr writes for strToCpuset(t) denotes the same set as t; it equals
\* t character by character when t is normalised (ascending, maximal runs as
\* from-to, single cpus as n, commas between, none trailing), and the empty
\* set is written as the empty text.
IsNumber(tok) == tok = IntToStr(atoi(tok))

\* the run <<from, to>> a token denotes, <<1, 0>> when it is not a valid token
TokenRun(tok) ==
    LET sep == IndexOf(tok, "-", 1) IN
    IF sep = 0
    THEN IF Len(tok) > 0 /\ IsDigit(tok[1]) /\ IsNumber(tok)
         THEN <<atoi(tok), atoi(tok)>> ELSE <<1, 0>>
    ELSE LET a == SubSeq(tok, 1, sep - 1)
             b == SubSeq(tok, sep + 1, Len(tok))
         IN  IF Len(a) > 0 /\ Len(b) > 0 /\ IsDigit(a[1]) /\ IsDigit(b[1])
                 /\ IsNumber(a) /\ IsNumber(b) /\ atoi(a) <= atoi(b)
             THEN <<atoi(a), atoi(b)>> ELSE <<1, 0>>

CommaCount(t) == Cardinality({k \in 1 .. Len(t) : t[k] = ","})

\* comma-separated tokens n or n-m with n <= m < NoOfCpus
ValidSpec(t) ==
    LET toks == Tokens(t, ",") IN
    /\ Len(toks) >= 1
    /\ \A k \in 1 .. Len(toks) :
          TokenRun(toks[k])[1] <= TokenRun(toks[k])[2]
              /\ TokenRun(toks[k])[2] < NoOfCpus

IsNormalised(t) ==
    LET toks == Tokens(t, ",") IN
    /\ ValidSpec(t)
    /\ CommaCount(t) = Len(toks) - 1
    /\ \A k \in 1 .. Len(toks) :
          /\ IndexOf(toks[k], "-", 1) # 0 => TokenRun(toks[k])[1] < TokenRun(toks[k])[2]
          /\ k < Len(toks) => TokenRun(toks[k])[2] + 1 < TokenRun(toks[k + 1])[1]

RunCpus(run) == {c \in run[1] .. run[2] : TRUE}

\* the set a valid text denotes
Denotes(t) ==
    LET toks == Tokens(t, ",") IN
    UNION {RunCpus(TokenRun(toks[k])) : k \in 1 .. Len(toks)}

C15_FormatOfParse ==
    \A p \in Procs :
        pc[p] \in {"show_scan", "show_unlock"} =>
            \A k \in 1 .. Len(loc[p].out) :
                LET t   == RowRule(k).cpus
                    row == loc[p].out[k]
                IN  /\ (Specified(t) /\ ValidSpec(t)) =>
                          /\ RowRule(k).cpuset = Denotes(t)
                          /\ Denotes(t) # {} =>
                                (ValidSpec(row.affinity)
                                    /\ Denotes(row.affinity) = Denotes(t))
                          /\ IsNormalised(row.affinity) \/ row.affinity = <<>>
                          /\ IsNormalised(t) => row.affinity = t
                    /\ RowRule(k).cpuset = {} => row.buf = <<>>

\* mcoreThreadRulesShow has printed a rule added with the cpus text "5,3-4,0",
\* which is valid and not normalised, as "0,3-5"
C15_Witness ==
    \E p \in Procs :
        /\ pc[p] = "show_unlock"
        /\ Len(loc[p].out) = 1
        /\ RowRule(1).cpus = <<"5", ",", "3", "-", "4", ",", "0">>
        /\ ~IsNormalised(RowRule(1).cpus)
        /\ loc[p].out[1].affinity = <<"0", ",", "3", "-", "5">>

\* C16: when a memory allocation inside mcoreThreadRuleAdd fails, the call
\* returns -1 at once, the process goes on running, and the list and the rules
\* in it are as before the call: no rule of the call is linked and a rule of
\* the same name is kept.
C16_FailedAddState ==
    \A p \in Procs :
        loc[p].failed # {} =>
            /\ ~crashed
            /\ pc[p] = "add_done"
            /\ loc[p].ret = -1
            /\ loc[p].node = NULL

C16_FailedAddStep ==
    \A p \in Procs :
        (pc[p] = "idle" /\ loc'[p].failed # {}) =>
            /\ threadRules' = threadRules
            /\ \A i \in 1 .. Len(threadRules) :
                  heap'[threadRules[i]] = heap[threadRules[i]]

C16_AllocFailureAtomic == [](C16_FailedAddState) /\ [][C16_FailedAddStep]_vars

\* C17: whichever of its OS calls fail, modifyRTProperties makes every call
\* that belongs to a modifier the rule specifies, in the same order (the
\* affinity calls also after a failed scheduling call), and its caller goes
\* on as after a success: the hook with the next rule, mcoreThreadModify with
\* its return.
ExpectedCalls(r) ==
    (IF r.ch_policy # 0 \/ r.ch_priority # 0
     THEN <<"pthread_attr_getschedparam", "pthread_attr_getschedpolicy">>
          \o (IF r.ch_policy # 0 THEN <<"pthread_attr_setschedpolicy">> ELSE <<>>)
          \o (IF r.ch_priority # 0 THEN <<"pthread_attr_setschedparam">> ELSE <<>>)
          \o <<"pthread_setschedparam">>
     ELSE <<>>)
    \o (IF r.ch_affinity # 0
        THEN <<"pthread_attr_setaffinity_np", "pthread_setaffinity_np">>
        ELSE <<>>)

C17_Step ==
    \A p \in Procs :
        /\ HookApplyStep(p) =>
              /\ loc'[p].calls = ExpectedCalls(heap[loc[p].prule].rule)
              /\ ~crashed'
              /\ loc'[p].prule = ellNext(threadRules, loc[p].prule)
              /\ pc'[p] = IF loc'[p].prule = NULL THEN "hook_unlock" ELSE "hook_scan"
        /\ ModifyStep(p) =>
              /\ loc'[p].calls = ExpectedCalls(loc'[p].rule)
              /\ ~crashed'

C17_FailuresOnlyLogged == [][C17_Step]_vars

\* a hook has applied a rule that sets policy, priority and affinity; the
\* pthread_setschedparam call failed (the live thread has the old scheduling
\* parameters, the cached ones are new) and the affinity was set all the same
C17_Witness ==
    \E p \in Procs :
        /\ pc[p] = "hook_unlock" /\ Len(loc[p].applied) = 1
        /\ thr[loc[p].id].schedPolicy = SCHED_RR
        /\ thr[loc[p].id].live.policy = SCHED_FIFO
        /\ thr[loc[p].id].live.affinity = {0, 1}
        /\ loc[p].calls = ExpectedCalls(heap[loc[p].applied[1]].rule)

\* C18: however often and from however many threads mcoreRegister and
\* mcoreThreadRulesInit are called, one mutex is created for listLock, the
\* system file and then the user file are read once each, threadStartHook is
\* added to the hook list once and only after that, the lock exists whenever
\* it is used, and a thread creation runs the hook once: no rule is applied
\* twice to the created thread.
HookPcs == {"hook_lock", "hook_scan", "hook_unlock"}

LockPcs == {"del_scan", "add_link", "add_unlock", "show_scan", "show_unlock",
            "hook_scan", "hook_unlock"}

NoDuplicates(seq) == \A i, j \in 1 .. Len(seq) : i # j => seq[i] # seq[j]

C18_InitialisedOnce ==
    /\ init.locks <= 1 /\ init.hooks <= 1
    /\ Len(init.loaded) <= 2
    /\ \A k \in 1 .. Len(init.loaded) : init.loaded[k].file = <<"sys", "user">>[k]
    /\ init.hooks = 1 => (init.locks = 1 /\ Len(init.loaded) = 2)
    /\ (init.onceFlag = "done") = (init.hooks = 1)
    /\ init.registered => init.hooks = 1
    /\ \A p \in Procs :
          /\ pc[p] \in LockPcs => init.locks = 1
          /\ pc[p] \in HookPcs =>
                (loc[p].pending = 0 /\ NoDuplicates(loc[p].applied))

\* two threads are inside mcoreRegister at once, both past the test of
\* firstTime; one has run once() and the other is about to call epicsThreadOnce
C18_Witness ==
    \E p, q \in Procs :
        /\ p # q
        /\ pc[p] = "reg_iocsh" /\ pc[q] = "rules_init"
        /\ loc[q].from = "register"
        /\ init.hooks = 1 /\ init.locks = 1

\* C19: readRulesFromFile stops at the first line that is neither a comment
\* nor empty and has fewer than five fields: no line of the file is read
\* after it, the count returned is the number of rule lines before it, the
\* rules of those lines are in the list, and the user file is read in the same
\* way after an error in the system file.
Colons(line) == Cardinality({i \in 1 .. Len(line) : line[i] = ":"})

IsSkipped(line) ==
    LET text == SelectSeq(line, LAMBDA c : c \notin {" ", "\t", "\r", "\n"})
    IN  text = <<>> \/ text[1] = "#"

IsBadLine(line) == ~IsSkipped(line) /\ Colons(line) < 4

FirstBad(lines) ==
    LET bad == {i \in 1 .. Len(lines) : IsBadLine(lines[i])}
    IN  IF bad = {} THEN Len(lines) + 1
        ELSE CHOOSE i \in bad : \A j \in bad : i <= j

RuleLinesBefore(f) ==
    IF f.open
    THEN SelectSeq(SubSeq(f.lines, 1, FirstBad(f.lines) - 1),
                   LAMBDA l : ~IsSkipped(l))
    ELSE <<>>

NameOfLine(line) == SubSeq(line, 1, IndexOf(line, ":", 1) - 1)

RECURSIVE AddOrReplaceAll(_, _, _)
AddOrReplaceAll(names, lines, i) ==
    IF i > Len(lines) THEN names
    ELSE AddOrReplaceAll(
             Append(SelectSeq(names, LAMBDA n : n # NameOfLine(lines[i])),
                    NameOfLine(lines[i])),
             lines, i + 1)

ListNames == [i \in 1 .. Len(threadRules) |-> heap[threadRules[i]].rule.name]

OsCallsMade(p) == loc'[p].calls # <<>>

C20_NoLockAcrossOsCall ==
    [][\A p \in Procs :
          ((HookApplyStep(p) \/ ModifyStep(p)) /\ OsCallsMade(p))
              => listLock.owner # p]_vars

\* C20 as amended: mcoreThreadModify makes its OS calls without holding or
\* taking the list lock; threadStartHook makes the OS calls of every matching
\* rule while it holds the lock, which it takes once before the scan and
\* releases after it; no other step changes a thread's scheduling state.
ThreadCreateStep(p) == pc[p] = "idle" /\ pc'[p] = "hook_lock"

C20_LockHeldOnlyByHookScan ==
    [][\A p \in Procs :
          /\ (ModifyStep(p) /\ OsCallsMade(p)) =>
                (listLock.owner # p /\ listLock' = listLock)
          /\ HookApplyStep(p) =>
                (listLock.owner = p /\ listLock' = listLock)
          /\ thr'[p] # thr[p] =>
                \E q \in Procs :
                    \/ ThreadCreateStep(q) /\ q = p
                    \/ HookApplyStep(q) /\ loc[q].id = p
                    \/ ModifyStep(q) /\ loc'[q].id = p]_vars

\* the hook has handed a matching rule to modifyRTProperties, OS calls were
\* made, and the scan still holds the lock
C20_Witness ==
    \E p \in Procs :
        /\ pc[p] \in {"hook_scan", "hook_unlock"}
        /\ loc[p].applied # <<>> /\ loc[p].calls # <<>>
        /\ "pthread_setschedparam" \in CallsMade(loc[p].calls)
        /\ listLock.owner = p

\* C21: under fair scheduling every call of rule add, rule delete, rules show,
\* thread modify and the thread-start hook returns, whatever the other threads
\* do, add's nested call of delete included; and the list lock is free
\* whenever no operation is in progress.
AllIdle == \A p \in Procs : pc[p] = "idle"

C21_OperationsReturn ==
    /\ \A p \in Procs : (pc[p] # "idle") ~> (pc[p] = "idle")
    /\ [](AllIdle => listLock = [owner |-> 0, count |-> 0])

\* one thread waits in the hook for the lock while another is inside the
\* delete that add calls with the lock already held
C21_Witness ==
    \E p, q \in Procs :
        /\ p # q
        /\ pc[p] = "hook_lock" /\ ~CanLock(p)
        /\ pc[q] = "del_scan" /\ loc[q].caller = "add"
        /\ listLock = [owner |-> q, count |-> 2]

\* C22: no rule is read after it has been freed. Every linked rule is
\* allocated; a scan of the hook or of rules show points at a linked rule and
\* holds the lock for as long as it keeps the pointer; a rule about to be
\* freed has been unlinked, is still allocated, and no other thread points at
\* it.
Allocated(n) == n # NULL /\ heap[n].st = "used"

C22_NoUseAfterFree ==
    /\ \A i \in 1 .. Len(threadRules) : Allocated(threadRules[i])
    /\ \A p \in Procs :
          /\ pc[p] \in {"hook_scan", "show_scan"} =>
                /\ listLock.owner = p
                /\ Allocated(loc[p].prule) /\ InList(loc[p].prule)
          /\ (pc[p] \in {"add_lock", "add_link"}
                \/ (pc[p] \in {"del_scan", "del_free"} /\ loc[p].caller = "add")) =>
                Allocated(loc[p].node)
          /\ pc[p] = "del_free" =>
                /\ Allocated(loc[p].prule) /\ ~InList(loc[p].prule)
                /\ \A q \in Procs \ {p} :
                      /\ pc[q] \in {"hook_scan", "show_scan", "del_free"} =>
                            loc[q].prule # loc[p].prule
                      /\ pc[q] \in {"add_lock", "del_scan", "del_free", "add_link"} =>
                            loc[q].node # loc[p].prule

\* a delete from the shell has unlinked a rule and released the lock but not
\* yet freed the rule, and another thread is scanning the list
C22_Witness ==
    \E p, q \in Procs :
        /\ p # q
        /\ pc[p] = "del_free" /\ loc[p].caller = "shell"
        /\ pc[q] \in {"hook_scan", "show_scan"}

\* C23 as stated: no thread acquires the list lock while it holds it, the
\* hold count of the lock never exceeds one.
C23_NoNestedAcquisition == listLock.count <= 1

\* C23 as amended: the only nested acquisition is the one of the
\* mcoreThreadRuleDelete that mcoreThreadRuleAdd calls while it holds the
\* lock. The hold count never exceeds two, it is two exactly while that
\* delete searches the list, add holds the lock once from then until its own
\* unlock, and every other operation holds the lock at most once.
C23_NestedOnlyInAdd ==
    /\ listLock.count \in 0 .. 2
    /\ (listLock.count = 0) = (listLock.owner = 0)
    /\ \A p \in Procs :
          /\ (listLock.owner = p /\ listLock.count = 2) =
                (pc[p] = "del_scan" /\ loc[p].caller = "add")
          /\ (pc[p] \in {"add_link", "add_unlock"}
                \/ (pc[p] = "del_free" /\ loc[p].caller = "add")) =>
                listLock = [owner |-> p, count |-> 1]
          /\ (pc[p] = "del_scan" /\ loc[p].caller = "shell") =>
                listLock = [owner |-> p, count |-> 1]
          /\ pc[p] \in {"hook_scan", "hook_unlock", "show_scan", "show_unlock"} =>
                listLock = [owner |-> p, count |-> 1]

\* add replaces a rule: it holds the lock twice while its delete is about to
\* find the rule of the same name
C23_Witness ==
    \E p \in Procs :
        /\ pc[p] = "del_scan" /\ loc[p].caller = "add"
        /\ listLock = [owner |-> p, count |-> 2]
        /\ findRule(threadRules, loc[p].name, 1) # NULL

\* C24: when one application of modifiers changes scheduling parameters and
\* affinity, pthread_setschedparam is called once, before the one call of
\* pthread_setaffinity_np, and the scheduling call is made and has its effect
\* on the live thread whichever of the affinity calls fail.
Positions(calls, c) == {i \in 1 .. Len(calls) : calls[i] = c}

SchedBeforeAffinity(calls) ==
    /\ Cardinality(Positions(calls, "pthread_setschedparam")) = 1
    /\ Cardinality(Positions(calls, "pthread_setaffinity_np")) = 1
    /\ \A i \in Positions(calls, "pthread_setschedparam"),
          j \in Positions(calls, "pthread_setaffinity_np")
                \cup Positions(calls, "pthread_attr_setaffinity_np") : i < j

ChangesBoth(r) == r.ch_affinity # 0 /\ (r.ch_policy # 0 \/ r.ch_priority # 0)

C24_Applied(calls, id, r) ==
    ChangesBoth(r) =>
        /\ SchedBeforeAffinity(calls)
        /\ \A fail \in SUBSET AffinityCalls :
              LET res  == modifyRTProperties(id, r, fail)
                  good == modifyRTProperties(id, r, {})
              IN  /\ SchedBeforeAffinity(res.calls)
                  /\ res.id.live.policy = good.id.live.policy
                  /\ res.id.live.param = good.id.live.param

C24_Step ==
    \A p \in Procs :
        /\ HookApplyStep(p) =>
              C24_Applied(loc'[p].calls, thr[loc[p].id], heap[loc[p].prule].rule)
        /\ ModifyStep(p) =>
              C24_Applied(loc'[p].calls, thr[loc'[p].id], loc'[p].rule)

C24_SchedBeforeAffinity == [][C24_Step]_vars

\* mcoreThreadModify has set policy, priority and affinity of a thread: the
\* scheduling call was made first and took effect, the affinity call after it
\* failed and the live thread still runs on every CPU
C24_Witness ==
    \E p \in Procs :
        /\ pc[p] = "mod_done" /\ ChangesBoth(loc[p].rule)
        /\ SchedBeforeAffinity(loc[p].calls)
        /\ thr[loc[p].id].live.policy = loc[p].rule.policy
        /\ thr[loc[p].id].live.affinity = AllCpus
        /\ loc[p].rule.cpuset # AllCpus

\* C25: after modifyRTProperties has applied modifiers whose policy is
\* specified (ch_policy set), the thread's isRealTimeScheduled is 1 if and
\* only if that policy is SCHED_FIFO or SCHED_RR and its cached schedPolicy
\* is that policy; when the policy is not specified the flag is left as it
\* was.
C25_Applied(before, after, r) ==
    IF r.ch_policy # 0
    THEN /\ after.schedPolicy = r.policy
         /\ (after.isRealTimeScheduled = 1) = (r.policy \in {SCHED_FIFO, SCHED_RR})
         /\ after.isRealTimeScheduled \in {0, 1}
    ELSE after.isRealTimeScheduled = before.isRealTimeScheduled

C25_Step ==
    \A p \in Procs :
        /\ HookApplyStep(p) =>
              C25_Applied(thr[loc[p].id], thr'[loc[p].id], heap[loc[p].prule].rule)
        /\ ModifyStep(p) =>
              C25_Applied(thr[loc'[p].id], thr'[loc'[p].id], loc'[p].rule)

C25_RealTimeFlag == [][C25_Step]_vars

\* mcoreThreadModify has given a thread, created with SCHED_FIFO, the policy
\* SCHED_RR: the cached policy is SCHED_RR and the thread is marked real-time
\* scheduled
C25_Witness ==
    \E p \in Procs :
        /\ pc[p] = "mod_done" /\ Specified(loc[p].policy)
        /\ loc[p].rule.ch_policy # 0 /\ loc[p].rule.policy = SCHED_RR
        /\ thr[loc[p].id].isRealTimeScheduled = 1
        /\ thr[loc[p].id].schedPolicy = SCHED_RR
        /\ thr[loc[p].id].attr.policy = SCHED_RR

\* C26 as stated: strToCpuset does not fail on an index at or above the
\* number of cpus N, and the set it gives has no index outside [0, N).
LinkedRule(r) == \E k \in 1 .. Len(threadRules) : heap[threadRules[k]].rule = r

RulesParsed == {heap[n].rule : n \in {m \in Nodes : heap[m].st = "used"}}

WellFormedSpec(t) ==
    LET toks == Tokens(t, ",") IN
    /\ Len(toks) >= 1
    /\ \A k \in 1 .. Len(toks) : TokenRun(toks[k])[1] <= TokenRun(toks[k])[2]

InShellCommand(p) ==
    /\ pc[p] \in {"add_lock", "del_scan", "del_free", "add_link", "add_unlock",
                  "add_done", "show_scan", "show_unlock", "mod_done"}
    /\ loc[p].file = ""

InitCompleted ==
    /\ init.showOnceFlag = "done" /\ init.cpuDigits = cpuDigitsOf(NoOfCpus)
    /\ init.onceFlag = "done" /\ init.locks = 1
    /\ Len(init.loaded) = 2 /\ init.hooks = 1

C27_CommandsAfterInit ==
    /\ init.registered => InitCompleted
    /\ \A p \in Procs :
          /\ InShellCommand(p) => (init.registered /\ InitCompleted)
          /\ pc[p] = "reg_iocsh" => InitCompleted

\* rules show runs as a shell command and has formatted the cpuset of a rule,
\* while a second thread, which had passed the test of firstTime together with
\* the first, is still inside mcoreRegister
C27_Witness ==
    \E p, q \in Procs :
        /\ p # q
        /\ pc[p] = "show_unlock" /\ Len(loc[p].out) >= 1
        /\ pc[q] \in {"rules_init", "reg_iocsh"} /\ loc[q].from = "register"

\* C28: mcoreThreadRuleAdd(name, ...) that succeeds leaves the rule named name
\* at the end of the list, wherever a replaced rule of that name stood, and
\* the other rules in the order they had; rules show prints and the hook
\* visits the rules in the order of the list, so that rule comes last.
OthersOf(list, name) == SelectSeq(list, LAMBDA n : heap[n].rule.name # name)

C28_Step ==
    \A p \in Procs :
        /\ (pc[p] = "del_scan" /\ loc[p].caller = "add" /\ pc'[p] # "del_scan") =>
              threadRules' = OthersOf(threadRules, loc[p].name)
        /\ (pc[p] = "del_free" /\ loc[p].caller = "add") =>
              threadRules' = threadRules
        /\ (pc[p] = "add_link" /\ pc'[p] = "add_unlock") =>
              /\ threadRules' = Append(OthersOf(threadRules, loc[p].name), loc[p].node)
              /\ heap[loc[p].node].rule.name = loc[p].name
        /\ (pc[p] = "add_unlock" /\ pc'[p] = "add_done") =>
              /\ loc'[p].ret = 0
              /\ threadRules' = threadRules
              /\ threadRules[Len(threadRules)] = loc[p].node
              /\ ListNames[Len(threadRules)] = loc[p].name
              /\ OthersOf(threadRules, loc[p].name)
                    = SubSeq(threadRules, 1, Len(threadRules) - 1)

C28_ScanInListOrder ==
    \A p \in Procs :
        /\ pc[p] = "show_unlock" =>
              [k \in 1 .. Len(loc[p].out) |-> loc[p].out[k].name] = ListNames
        /\ pc[p] \in {"hook_scan", "hook_unlock"} =>
              \A i, j \in 1 .. Len(loc[p].applied) :
                  i < j => ellIndex(threadRules, loc[p].applied[i])
                               < ellIndex(threadRules, loc[p].applied[j])

C28_ReplacedRuleIsLast == [](C28_ScanInListOrder) /\ [][C28_Step]_vars

\* r1 and r2 were added in that order and r1 has been added again: the old r1
\* (first allocation) is freed and the new r1 stands behind r2
C28_Witness ==
    \E p \in Procs :
        /\ pc[p] = "add_done" /\ loc[p].ret = 0
        /\ loc[p].name = <<"r", "1">>
        /\ Len(threadRules) = 2
        /\ ListNames = << <<"r", "2">>, <<"r", "1">> >>
        /\ threadRules[2] = loc[p].node /\ loc[p].node = 3
        /\ heap[1].st = "free"

\* C29: the rules matching a thread compose in list order on the cached
\* portable priority. The hook applying a rule whose priority text is a signed
\* delta d sets the priority to the value left by the rules before it plus d,
\* clamped to the portable range after that step; applying a rule whose text
\* is an unsigned number sets it to that number clamped; a rule without
\* priority leaves it.
TextsOfRule(r) ==
    {in \in RuleInputs(scen) :
        newRule(r.name, in.policy, in.priority, in.cpus, in.pattern) = r}

C29_Step ==
    \A p \in Procs :
        HookApplyStep(p) =>
            LET r      == heap[loc[p].prule].rule
                before == thr[loc[p].id].osiPriority
                after  == thr'[loc[p].id].osiPriority
            IN  \A in \in TextsOfRule(r) :
                    /\ IsRelativeText(in.priority) =>
                          after = ClampToRange(before + atoi(in.priority))
                    /\ IsAbsoluteText(in.priority) =>
                          after = ClampToRange(atoi(in.priority))
                    /\ ~Specified(in.priority) => after = before

C29_PrioritiesCompose == [][C29_Step]_vars

\* C30: modifyRTProperties stores the new policy, the new portable priority
\* and the real-time flag in the thread whichever of its OS calls fail,
\* pthread_setschedparam included: the cached fields hold the requested
\* settings, and a relative priority applied later is added to the cached
\* priority, not to the one the live thread has.
RequestedPriority(before, r) ==
    IF r.rel_priority # 0
    THEN ClampToRange(before.osiPriority + r.priority)
    ELSE r.priority

CachedAsRequested(before, after, r) ==
    /\ r.ch_policy # 0 =>
          /\ after.schedPolicy = r.policy
          /\ after.isRealTimeScheduled =
                (IF r.policy \in {SCHED_FIFO, SCHED_RR} THEN 1 ELSE 0)
    /\ r.ch_priority # 0 =>
          /\ after.osiPriority = RequestedPriority(before, r)
          /\ after.schedParam = epicsThreadGetPosixPriority(after.osiPriority)

C30_Applied(before, after, r) ==
    /\ CachedAsRequested(before, after, r)
    /\ \A fail \in SUBSET CallsFor(r) :
          CachedAsRequested(before, modifyRTProperties(before, r, fail).id, r)

C30_Step ==
    \A p \in Procs :
        /\ HookApplyStep(p) =>
              C30_Applied(thr[loc[p].id], thr'[loc[p].id], heap[loc[p].prule].rule)
        /\ ModifyStep(p) =>
              C30_Applied(thr[loc'[p].id], thr'[loc'[p].id], loc'[p].rule)

C30_CachedBeforeOsCall == [][C30_Step]_vars

\* a thread created with priority 50 was given the priority 20 and then the
\* delta +25, and pthread_setschedparam failed both times: the cached priority
\* is 20 + 25, the live thread still has the priority it was created with
C30_Witness ==
    \E p \in Procs :
        /\ pc[p] = "mod_done"
        /\ loc[p].rule.ch_priority # 0 /\ loc[p].rule.rel_priority # 0
        /\ thr[loc[p].id].osiPriority = 45
        /\ thr[loc[p].id].schedPolicy = SCHED_OTHER
        /\ thr[loc[p].id].live.param = epicsThreadGetPosixPriority(50)
        /\ thr[loc[p].id].live.policy = SCHED_FIFO

====
